---- MODULE Spec2Model ----
(***************************************************************************)
(* State-machine model of the INDI property engine of this repository:     *)
(* BaseDevice (src/libs/indibase/basedevice.cpp) and BaseDevicePrivate     *)
(* (the class declaration at the end of                                    *)
(* src/drivers/telescope/scopesim_helper.h).                               *)
(*                                                                         *)
(* One action per public operation of BaseDevice.  Every action models    *)
(* the whole handler: the list mutation, the watch callback and the        *)
(* mediator notifications it makes.  The callbacks a call makes are        *)
(* recorded, in call order, in `events`; the value it returns in `ret`;    *)
(* the call itself (operation and argument) in `last`.                     *)
(***************************************************************************)
EXTENDS Integers, Sequences, FiniteSets, TLC

(***************************************************************************)
(* Bounds of the model.                                                    *)
(***************************************************************************)
\* longest property list the model lets pAll grow to
MaxProps == 2
\* longest message log the model lets messageLog grow to
MaxLog == 1

(***************************************************************************)
(* Enumerations of the library (indiapi.h / indibasetypes.h), by name.     *)
(***************************************************************************)
INDI_NUMBER == "INDI_NUMBER"
INDI_SWITCH == "INDI_SWITCH"
INDI_TEXT == "INDI_TEXT"
INDI_LIGHT == "INDI_LIGHT"
INDI_BLOB == "INDI_BLOB"
INDI_UNKNOWN == "INDI_UNKNOWN"

PropertyTypes == {INDI_NUMBER, INDI_SWITCH, INDI_TEXT, INDI_LIGHT, INDI_BLOB}

IPStates == {"IPS_IDLE", "IPS_OK", "IPS_BUSY", "IPS_ALERT"}
IPerms == {"IP_RO", "IP_WO", "IP_RW"}

\* values a call returns; "void" for the operations that return nothing
RET_OK == "0"
RET_ERR == "-1"
RET_VOID == "void"
INDI_PROPERTY_INVALID == "INDI_PROPERTY_INVALID"
INDI_PROPERTY_DUPLICATED == "INDI_PROPERTY_DUPLICATED"

\* an attribute the element does not carry
NoAttr == "<absent>"

Min(S) == CHOOSE x \in S : \A y \in S : x <= y

(***************************************************************************)
(* Conversions of attribute text (LilXmlValue).                            *)
(***************************************************************************)
\* wire token -> IPState; toIPState(&ok) sets ok = FALSE for any other text
IPStateTokens == [Idle |-> "IPS_IDLE", Ok |-> "IPS_OK", Busy |-> "IPS_BUSY", Alert |-> "IPS_ALERT"]

toIPStateOk(text) == text \in DOMAIN IPStateTokens

\* The value toIPState returns along with ok = FALSE.  basedevice.cpp does
\* not fix it: it is one IPState, the same at every call, and any of them.
VARIABLE toIPStateFailure

\* The values toIPState can return: the state the token names, the failure
\* value for text that is no state token.
toIPState(text) == IF toIPStateOk(text) THEN {IPStateTokens[text]} ELSE {toIPStateFailure}

IPermTokens == [ro |-> "IP_RO", wo |-> "IP_WO", rw |-> "IP_RW"]

\* toIPerm(): the permission named, any permission for text that names none
toIPerm(text) == IF text \in DOMAIN IPermTokens THEN {IPermTokens[text]} ELSE IPerms

\* decimal text -> number, for the texts the model's elements carry
NumberTexts ==
    ("0" :> 0) @@ ("1" :> 1) @@ ("5.0" :> 5) @@ ("9.0" :> 9) @@ ("10" :> 10) @@
    ("20" :> 20) @@ ("60" :> 60) @@ ("30" :> 30)

toDoubleOk(text) == text \in DOMAIN NumberTexts

toDouble(text) == IF toDoubleOk(text) THEN NumberTexts[text] ELSE 0

\* ISState / IPState text of a switch or light member; the member keeps its
\* value when the text names no state
SwitchTokens == [On |-> "ISS_ON", Off |-> "ISS_OFF"]

setSwitchState(old, text) == IF text \in DOMAIN SwitchTokens THEN SwitchTokens[text] ELSE old

setLightState(old, text) == IF toIPStateOk(text) THEN IPStateTokens[text] ELSE old

(***************************************************************************)
(* Widgets and properties.                                                 *)
(***************************************************************************)
\* the null pointer
NULL == 0

\* a member as WidgetView's constructor leaves it (all fields zeroed): s is
\* the ISState of a switch, the IPState of a light; blob is the address of
\* the buffer of a BLOB member
NewWidget(type) ==
    [name |-> "", label |-> "", format |-> "", min |-> 0, max |-> 0, step |-> 0,
     value |-> 0, text |-> "", blob |-> NULL, bloblen |-> 0, size |-> 0,
     s |-> IF type = INDI_SWITCH THEN "ISS_OFF"
           ELSE IF type = INDI_LIGHT THEN "IPS_IDLE" ELSE ""]

\* INDI::Property(): the invalid property getProperty returns when nothing matches
NoProperty ==
    [name |-> "", type |-> INDI_UNKNOWN, device |-> "", label |-> "", group |-> "",
     state |-> "IPS_IDLE", timeout |-> 0, perm |-> "IP_RO", registered |-> FALSE,
     dynamic |-> FALSE, widgets |-> << >>]

\* a typed property as PropertyNumber{0} ... PropertyBlob{0} constructs it:
\* valid, registered, no members yet
NewProperty(type) ==
    [NoProperty EXCEPT !.type = type, !.registered = TRUE]

isValid(p) == p.type # INDI_UNKNOWN

isEmpty(p) == Len(p.widgets) = 0

(***************************************************************************)
(* Wire elements.  A vector element carries its tag, its attributes (an    *)
(* attribute it lacks is NoAttr) and its child elements in document order; *)
(* a child carries its tag, its attributes and its text content.           *)
(***************************************************************************)
Child(tag, name, context, min, max) ==
    [tag |-> tag, name |-> name, label |-> name, format |-> "%g",
     min |-> min, max |-> max, step |-> "1", context |-> context,
     size |-> NoAttr, attachedDataId |-> NoAttr, attachmentDirect |-> NoAttr]

\* a oneBLOB child: format, size and either base64 text content or the
\* attributes attached-data-id and attachment-direct
OneBLOB(name, format, size, attachedDataId, attachmentDirect, context) ==
    [Child("oneBLOB", name, context, NoAttr, NoAttr) EXCEPT
        !.format = format, !.size = size, !.attachedDataId = attachedDataId,
        !.attachmentDirect = attachmentDirect]

Element(tag, device, name, state, timeout, message, children) ==
    [tag |-> tag, device |-> device, name |-> name, label |-> "Label", group |-> "Main",
     state |-> state, timeout |-> timeout, perm |-> "rw", message |-> message,
     context |-> "", children |-> children]

\* the argument slot of `last` for calls that take no element
NoElement == Element("", NoAttr, NoAttr, NoAttr, NoAttr, NoAttr, << >>)

\* LilXmlValue::toString(): the text of an attribute, empty when it is absent
toString(attr) == IF attr = NoAttr THEN "" ELSE attr

\* LilXmlElement::getElementsByTagName
getElementsByTagName(root, tag) == SelectSeq(root.children, LAMBDA c : c.tag = tag)

\* crackDN: the element carries both a device and a name attribute
crackDN(root) == root.device # NoAttr /\ root.name # NoAttr

(***************************************************************************)
(* buildProp: the tag -> kind table and the per-kind member builders.      *)
(***************************************************************************)
\* the tag table with an entry for a tag that is no definition tag
defTagTypeNameWithMessageTag ==
    [defNumberVector |-> INDI_NUMBER, defSwitchVector |-> INDI_SWITCH,
     defTextVector |-> INDI_TEXT, defLightVector |-> INDI_LIGHT,
     defBLOBVector |-> INDI_BLOB, message |-> INDI_NUMBER]

\* buildProp, lines 292-309: the tags buildProp processes, with their kinds
defTagTypeName ==
    [defNumberVector |-> INDI_NUMBER, defSwitchVector |-> INDI_SWITCH,
     defTextVector |-> INDI_TEXT, defLightVector |-> INDI_LIGHT,
     defBLOBVector |-> INDI_BLOB]

\* the tag of the child elements buildProp reads for each kind
defChildTag ==
    [INDI_NUMBER |-> "defNumber", INDI_SWITCH |-> "defSwitch", INDI_TEXT |-> "defText",
     INDI_LIGHT |-> "defLight", INDI_BLOB |-> "defBLOB"]

\* the member buildProp fills from one child element of a definition
defWidget(type, element) ==
    LET w == [NewWidget(type) EXCEPT !.name = toString(element.name),
                                     !.label = toString(element.label)]
    IN  CASE type = INDI_NUMBER ->
               [w EXCEPT !.format = toString(element.format),
                         !.min = toDouble(element.min),
                         !.max = toDouble(element.max),
                         !.step = toDouble(element.step),
                         !.value = toDouble(element.context)]
          [] type = INDI_SWITCH -> [w EXCEPT !.s = setSwitchState(@, element.context)]
          [] type = INDI_TEXT -> [w EXCEPT !.text = element.context]
          [] type = INDI_LIGHT -> [w EXCEPT !.s = setLightState(@, element.context)]
          [] type = INDI_BLOB -> [w EXCEPT !.format = toString(element.format)]

\* every member pushed, whatever its name
keepWidgetOfAnyName(w) == TRUE

\* a member is pushed unless its name is empty
keepWidget(w) == w.name # ""

RECURSIVE defWidgets(_, _)
defWidgets(type, elements) ==
    IF elements = << >> THEN << >>
    ELSE LET w == defWidget(type, Head(elements))
         IN  (IF keepWidget(w) THEN <<w>> ELSE << >>) \o defWidgets(type, Tail(elements))

\* the typed property of the switch at lines 323-431: its members only
buildTyped(type, root) ==
    [NewProperty(type) EXCEPT
        !.widgets = defWidgets(type, getElementsByTagName(root, defChildTag[type]))]

\* Property::setState(text) / setTimeout(text): the field keeps its value when
\* the text does not convert
setStateText(old, attr) == IF toIPStateOk(attr) THEN IPStateTokens[attr] ELSE old

setTimeoutText(old, attr) == IF toDoubleOk(attr) THEN toDouble(attr) ELSE old

\* lines 445-458: name, device and the metadata shared by all kinds; the
\* permission for every kind but Light
setMetadata(p, root, type, isDynamic, devName, perm) ==
    [p EXCEPT !.name = toString(root.name),
              !.dynamic = isDynamic,
              !.device = devName,
              !.label = toString(root.label),
              !.group = toString(root.group),
              !.state = setStateText(@, root.state),
              !.timeout = setTimeoutText(@, root.timeout),
              !.perm = IF type # INDI_LIGHT THEN perm ELSE @]

(***************************************************************************)
(* The property list.                                                      *)
(***************************************************************************)
isNameMatch(p, name) == p.name = name

\* getProperty without the comparison of kinds of line 138
getPropertyOfAnyType(props, name, type) ==
    LET hits == {i \in 1..Len(props) : props[i].registered /\ isNameMatch(props[i], name)}
    IN  IF hits = {} THEN 0 ELSE Min(hits)

\* BaseDevice::getProperty: the position in the list of the property the
\* call returns, 0 when it returns the invalid property
getProperty(props, name, type) ==
    LET hits == {i \in 1..Len(props) :
                    /\ (type = props[i].type \/ type = INDI_UNKNOWN)
                    /\ props[i].registered
                    /\ isNameMatch(props[i], name)}
    IN  IF hits = {} THEN 0 ELSE Min(hits)

\* the property at a position, the invalid property at position 0
propertyAt(props, i) == IF i = 0 THEN NoProperty ELSE props[i]

\* the member handed to newBLOB when findWidgetByName found none
NullWidget == "<null>"

\* one callback invocation: which callback, the property handed to it, whether
\* that property was in the list when the callback ran, for newMessage the
\* message index handed to it (-1 otherwise), and for newBLOB the name of
\* the member handed to it ("" otherwise)
Event(cb, p, props, idx) ==
    [cb |-> cb, prop |-> p, listed |-> \E i \in 1..Len(props) : props[i] = p, idx |-> idx,
     widget |-> ""]

\* BaseDevicePrivate::addProperty, the list: push_back under the lock
addProperty(props, p) == Append(props, p)

\* BaseDevicePrivate::addProperty, the callback: after the push, the watch
\* callback registered for the property's name, if any
addPropertyEvents(props, watch, p) ==
    IF p.name \in watch THEN <<Event("watch", p, addProperty(props, p), -1)>> ELSE << >>

\* buildProp notifying the mediator before it calls addProperty
buildPropEventsMediatorFirst(props, watch, med, p) ==
    (IF med THEN <<Event("newProperty", p, props, -1)>> ELSE << >>)
    \o addPropertyEvents(props, watch, p)

\* buildProp, lines 460-464: addProperty, then the mediator's newProperty
buildPropEvents(props, watch, med, p) ==
    addPropertyEvents(props, watch, p)
    \o (IF med THEN <<Event("newProperty", p, addProperty(props, p), -1)>> ELSE << >>)

\* buildProp, line 314: a property of that name is found, whatever its kind
isDuplicate(props, name) == getProperty(props, name, INDI_UNKNOWN) # 0

(***************************************************************************)
(* setValue: the tag -> kind table, the member updates, the message log.   *)
(***************************************************************************)
setTagTypeName ==
    [setNumberVector |-> INDI_NUMBER, setSwitchVector |-> INDI_SWITCH,
     setTextVector |-> INDI_TEXT, setLightVector |-> INDI_LIGHT,
     setBLOBVector |-> INDI_BLOB]

\* the mediator callback of each kind
perKindCallback ==
    [INDI_NUMBER |-> "newNumber", INDI_SWITCH |-> "newSwitch", INDI_TEXT |-> "newText",
     INDI_LIGHT |-> "newLight", INDI_BLOB |-> "newBLOB"]

PerKindCallbacks == {perKindCallback[t] : t \in PropertyTypes}

\* PropertyView::findWidgetByName: position of the first member of that
\* name, 0 when there is none
findWidgetByName(widgets, name) ==
    LET hits == {i \in 1..Len(widgets) : widgets[i].name = name}
    IN  IF hits = {} THEN 0 ELSE Min(hits)

\* the lambdas setValue hands to for_property: what one child element does
\* to the member it names
updateWidget(type, item, element) ==
    CASE type = INDI_NUMBER ->
           [item EXCEPT !.value = toDouble(element.context),
                        !.min = IF element.min # NoAttr THEN toDouble(element.min) ELSE @,
                        !.max = IF element.max # NoAttr THEN toDouble(element.max) ELSE @]
      [] type = INDI_SWITCH -> [item EXCEPT !.s = setSwitchState(@, element.context)]
      [] type = INDI_TEXT -> [item EXCEPT !.text = element.context]
      [] type = INDI_LIGHT -> [item EXCEPT !.s = setLightState(@, element.context)]
      [] OTHER -> item

\* for_property giving the property a new member for a child element that
\* names none of its members
RECURSIVE for_propertyAppending(_, _, _)
for_propertyAppending(type, widgets, elements) ==
    IF elements = << >> THEN widgets
    ELSE LET i == findWidgetByName(widgets, toString(Head(elements).name))
             fresh == [NewWidget(type) EXCEPT !.name = toString(Head(elements).name)]
             next == IF i # 0
                     THEN [widgets EXCEPT ![i] = updateWidget(type, @, Head(elements))]
                     ELSE Append(widgets, updateWidget(type, fresh, Head(elements)))
         IN  for_propertyAppending(type, next, Tail(elements))

\* for_property: every child element in order, applied to the member it
\* names when the property has one
RECURSIVE for_property(_, _, _)
for_property(type, widgets, elements) ==
    IF elements = << >> THEN widgets
    ELSE LET i == findWidgetByName(widgets, toString(Head(elements).name))
             next == IF i # 0
                     THEN [widgets EXCEPT ![i] = updateWidget(type, @, Head(elements))]
                     ELSE widgets
         IN  for_property(type, next, Tail(elements))

\* setValue going on after a state attribute that did not convert
stateAbortsNever(root) == FALSE

\* setValue, lines 555-559: the call ends with -1 when the state attribute
\* did not convert
stateAborts(root) == ~toIPStateOk(root.state)

\* setValue, lines 562-570: the timeout changes when the attribute converts
updateTimeout(p, root) ==
    IF toDoubleOk(root.timeout) THEN [p EXCEPT !.timeout = toDouble(root.timeout)] ELSE p

\* checkMessage: the element carries a message attribute
checkMessage(root) == root.message # NoAttr

\* doMessage: the log entry made of an element's message (the time stamp it
\* is prefixed with is left out)
doMessage(root) == root.message

\* addMessage: the log after the push, and the newMessage notification with
\* the index size() - 1 read after the push
addMessage(log, msg) == Append(log, msg)

addMessageEvents(log, med, msg) ==
    IF med THEN <<Event("newMessage", NoProperty, << >>, Len(addMessage(log, msg)) - 1)>>
    ELSE << >>

\* the mediator's per-kind notification at the end of a Number, Switch, Text
\* or Light update
perKindEvents(med, type, p, props) ==
    IF med THEN <<Event(perKindCallback[type], p, props, -1)>> ELSE << >>

\* BaseDevice::removeProperty, the list: Properties::erase_if with the
\* name predicate of lines 191-197
erase_if(props, name) ==
    LET hits == {i \in 1..Len(props) : isNameMatch(props[i], name)}
    IN  IF hits = {} THEN props
        ELSE SubSeq(props, 1, Min(hits) - 1) \o SubSeq(props, Min(hits) + 1, Len(props))

\* removeProperty with result starting at 0
removePropertyResultAlwaysOk(props, name) == RET_OK

\* BaseDevice::removeProperty, the value returned: 0 when the predicate met
\* a property of that name, INDI_PROPERTY_INVALID otherwise
removePropertyResult(props, name) ==
    IF \E i \in 1..Len(props) : isNameMatch(props[i], name)
    THEN RET_OK ELSE INDI_PROPERTY_INVALID

(***************************************************************************)
(* BLOB payloads: text, bytes, the decoders and the memory routines        *)
(* setBLOB calls.  Bytes are sequences of numbers 0..255; a buffer is an   *)
(* address of the heap, NULL is no buffer.                                 *)
(***************************************************************************)
\* the process ended abnormally inside the call
RET_CRASH == "crash"

\* LilXmlValue::size(): the number of characters of the texts the model's
\* elements carry
TextSize == ("" :> 0) @@ ("QUJD" :> 4) @@ ("eJwB" :> 4) @@ ("AAAA" :> 4)

\* LilXmlValue::toInt(): 0 for text that is no number
IntTexts == ("0" :> 0) @@ ("2" :> 2) @@ ("3" :> 3) @@ ("4" :> 4)

toInt(text) == IF text \in DOMAIN IntTexts THEN IntTexts[text] ELSE 0

\* base64 text -> the bytes it encodes
Base64Texts ==
    ("QUJD" :> <<65, 66, 67>>) @@ ("eJwB" :> <<120, 156, 1>>) @@ ("AAAA" :> <<0, 0, 0>>)

\* what a read past the end of the input text can make the decoder write
OutOfBoundsDecodes == {<<0, 0, 0>>, <<65, 66, 67>>, <<120, 156, 1>>}

\* from64tobits_fast(out, in, inlen): the bytes written to out, whose number
\* is the value returned.  inlen characters are read from in whatever its
\* length: a shorter text is read past its end.
from64tobits_fast(in, inlen) ==
    IF inlen = 0 THEN {<< >>}
    ELSE IF TextSize[in] < inlen THEN OutOfBoundsDecodes
    ELSE {Base64Texts[in]}

\* zlib streams and the bytes they inflate to
ZlibStreams == (<<120, 156, 1>> :> <<65, 66, 67, 68>>)

Z_OK == "0"
Z_DATA_ERROR == "-3"
Z_BUF_ERROR == "-5"

isPrefix(a, b) == Len(a) <= Len(b) /\ SubSeq(b, 1, Len(a)) = a

\* uncompress(dest, &destLen, source, sourceLen): the code returned and the
\* bytes written to dest; destLen is the room in dest on entry and the
\* number of bytes written on success
uncompress(destLen, source, sourceLen) ==
    LET read == SubSeq(source, 1, Min({sourceLen, Len(source)}))
        streams == {z \in DOMAIN ZlibStreams : isPrefix(z, read)}
    IN  IF streams = {} THEN [r |-> Z_DATA_ERROR, data |-> << >>]
        ELSE LET data == ZlibStreams[CHOOSE z \in streams : TRUE]
             IN  IF Len(data) > destLen THEN [r |-> Z_BUF_ERROR, data |-> << >>]
                 ELSE [r |-> Z_OK, data |-> data]

\* LilXmlValue::endsWith(".z") and the format up to the last ".z", for the
\* formats the model's elements carry
CompressedFormats == (".fits.z" :> ".fits")

endsWithZ(format) == format \in DOMAIN CompressedFormats

stripZ(format) == CompressedFormats[format]

\* the buffers the transport holds, by the id an element names them with
AttachedBlobs ==
    [s1 |-> <<65, 66, 67>>, s2 |-> <<88, 89>>, z1 |-> <<120, 156, 1>>, bad |-> <<0, 0, 0>>]

\* the first n bytes of a buffer mapped with n bytes
mapped(bytes, n) == [i \in 1..n |-> IF i <= Len(bytes) THEN bytes[i] ELSE 0]

\* the heap: what each address holds.  A buffer is obtained from malloc or
\* realloc ("malloc") or is a mapping of a transport buffer ("shared").
MaxBuffers == 3

Addresses == 1..MaxBuffers

NoBuffer == [kind |-> "free", bytes |-> << >>]

EmptyHeap == [a \in Addresses |-> NoBuffer]

isLive(heap, ptr) == ptr \in Addresses /\ heap[ptr].kind # "free"

freeAddresses(heap) == {a \in Addresses : heap[a].kind = "free"}

(***************************************************************************)
(* BaseDevicePrivate::setBLOB.  The call works on the members of the       *)
(* property and on the heap; it is followed here as a record of both, of   *)
(* the misuses of the memory routines met, of the newBLOB notifications    *)
(* made and of the value returned (code is "" while the call runs).        *)
(***************************************************************************)
BlobCall(p, heap) ==
    [widgets |-> p.widgets, heap |-> heap, faults |-> {}, events |-> << >>,
     code |-> "", errmsg |-> ""]

fault(b, what) == [b EXCEPT !.faults = @ \cup {what}]

crash(b) == [b EXCEPT !.code = RET_CRASH]

\* malloc and mmap: the buffer is placed at the lowest free address; the
\* value is the call record after it and the address
alloc(b, kind, bytes) ==
    IF freeAddresses(b.heap) = {} THEN {}
    ELSE LET a == Min(freeAddresses(b.heap))
         IN  {[b |-> [b EXCEPT !.heap[a] = [kind |-> kind, bytes |-> bytes]], ptr |-> a]}

\* free(ptr): releases a buffer of malloc
free(b, ptr) ==
    IF isLive(b.heap, ptr) /\ b.heap[ptr].kind = "malloc"
    THEN [b EXCEPT !.heap[ptr] = NoBuffer]
    ELSE fault(b, "free of a buffer malloc did not return")

\* IDSharedBlobFree(ptr): unmaps a shared buffer, frees any other buffer
IDSharedBlobFree(b, ptr) ==
    IF isLive(b.heap, ptr) THEN [b EXCEPT !.heap[ptr] = NoBuffer]
    ELSE fault(b, "release of a buffer already released")

\* attachBlobByUid(id, size): a mapping of size bytes of the transport's buffer
attachBlobByUid(b, id, size) == alloc(b, "shared", mapped(AttachedBlobs[id], size))

\* widget->setBlob(realloc(widget->getBlob(), n)).  realloc of an address
\* malloc did not return is undefined: the process ends, or goes on with a
\* new buffer while the mapping stays.
reallocBlob(b, w) ==
    LET ptr == b.widgets[w].blob
        misuse == fault(b, "realloc of a shared buffer")
    IN  IF ptr = NULL
        THEN {[r.b EXCEPT !.widgets[w].blob = r.ptr] : r \in alloc(b, "malloc", << >>)}
        ELSE IF b.heap[ptr].kind = "malloc" THEN {b}
        ELSE {crash(misuse)} \cup
             {[r.b EXCEPT !.widgets[w].blob = r.ptr] : r \in alloc(misuse, "malloc", << >>)}

\* the direct attachment installed without a release of the buffer the
\* member holds
attachDirectKeepingOld(b, w, element) ==
    {[r.b EXCEPT !.widgets[w].blob = r.ptr] :
       r \in attachBlobByUid(b, element.attachedDataId, toInt(element.size))}

\* lines 661-668: the direct attachment
attachDirect(b, w, element) ==
    LET old == b.widgets[w].blob
        b1 == IF old # NULL
              THEN [IDSharedBlobFree(b, old) EXCEPT !.widgets[w].bloblen = 0]
              ELSE b
    IN  {[r.b EXCEPT !.widgets[w].blob = r.ptr] :
           r \in attachBlobByUid(b1, element.attachedDataId, toInt(element.size))}

\* lines 670-677: the attachment copied into the member's own buffer
attachCopy(b, w, element) ==
    LET size == toInt(element.size)
    IN  UNION {IF b1.code # "" THEN {b1}
               ELSE {IDSharedBlobFree(
                        [r.b EXCEPT !.heap[b1.widgets[w].blob].bytes =
                                        SubSeq(r.b.heap[r.ptr].bytes, 1, size)],
                        r.ptr) : r \in attachBlobByUid(b1, element.attachedDataId, size)}
               : b1 \in reallocBlob(b, w)}

\* lines 680-686: the inline payload, decoded from root.context() with the
\* length of the child's text
decodeInline(b, w, element, root) ==
    LET base64_encoded_size == TextSize[element.context]
    IN  UNION {IF b1.code # "" THEN {b1}
               ELSE {[b1 EXCEPT !.heap[b1.widgets[w].blob].bytes = bytes,
                                !.widgets[w].bloblen = Len(bytes)] :
                       bytes \in from64tobits_fast(root.context, base64_encoded_size)}
               : b1 \in reallocBlob(b, w)}

compressionError(r) ==
    IF r = Z_DATA_ERROR THEN "compression error: -3" ELSE "compression error: -5"

\* the payload inflated without a release of the buffer that held it
inflateKeepingCompressed(b, w, element) ==
    IF endsWithZ(toString(element.format))
    THEN LET b1 == [b EXCEPT !.widgets[w].format = stripZ(element.format)]
             old == b1.widgets[w].blob
             u == uncompress(b1.widgets[w].size, b1.heap[old].bytes, b1.widgets[w].bloblen)
         IN  {IF u.r # Z_OK
              THEN [free(r.b, r.ptr) EXCEPT !.code = RET_ERR,
                                            !.errmsg = compressionError(u.r)]
              ELSE [r.b EXCEPT !.widgets[w].size = Len(u.data),
                               !.widgets[w].blob = r.ptr,
                               !.heap[r.ptr].bytes = u.data]
              : r \in alloc(b1, "malloc", << >>)}
    ELSE {[b EXCEPT !.widgets[w].format = toString(element.format)]}

\* lines 689-718: the format stored and, for a format ending in ".z", the
\* payload inflated into a new buffer of the declared size
inflate(b, w, element) ==
    IF endsWithZ(toString(element.format))
    THEN LET b1 == [b EXCEPT !.widgets[w].format = stripZ(element.format)]
             old == b1.widgets[w].blob
             u == uncompress(b1.widgets[w].size, b1.heap[old].bytes, b1.widgets[w].bloblen)
         IN  {IF u.r # Z_OK
              THEN [free(r.b, r.ptr) EXCEPT !.code = RET_ERR,
                                            !.errmsg = compressionError(u.r)]
              ELSE [IDSharedBlobFree(r.b, old) EXCEPT
                       !.widgets[w].size = Len(u.data),
                       !.widgets[w].blob = r.ptr,
                       !.heap[r.ptr].bytes = u.data]
              : r \in alloc(b1, "malloc", << >>)}
    ELSE {[b EXCEPT !.widgets[w].format = toString(element.format)]}

\* mediator->newBLOB(widget), with the property as it is when the call is
\* made; w is the position of the member, 0 for the null pointer
newBLOB(b, med, p, w) ==
    IF med
    THEN LET now == [p EXCEPT !.widgets = b.widgets]
             widget == IF w = 0 THEN NullWidget ELSE b.widgets[w].name
         IN  [b EXCEPT !.events =
                 Append(@, [Event("newBLOB", now, <<now>>, -1) EXCEPT !.widget = widget])]
    ELSE b

\* a child of size 0 ending the call with 0
zeroSizeReturning(b, med, p, w) == [b EXCEPT !.code = RET_OK]

\* lines 644-650: a child of size 0: the mediator notified, the loop goes on
zeroSize(b, med, p, w) == newBLOB(b, med, p, w)

\* lines 632-722: the body of the loop, for one oneBLOB child
oneBLOB(b, element, root, med, p) ==
    LET w == findWidgetByName(b.widgets, toString(element.name))
    IN  IF element.name = NoAttr \/ element.format = NoAttr \/ element.size = NoAttr
        THEN {[b EXCEPT !.code = RET_ERR, !.errmsg = "No valid members."]}
        ELSE IF toInt(element.size) = 0 THEN {zeroSize(b, med, p, w)}
        ELSE IF w = 0 THEN {crash(b)}
        ELSE LET b1 == [b EXCEPT !.widgets[w].size = toInt(element.size)]
                 payloads ==
                     IF element.attachedDataId # NoAttr
                     THEN {IF b2.code # "" THEN b2
                           ELSE [b2 EXCEPT !.widgets[w].bloblen = toInt(element.size)] :
                             b2 \in IF element.attachmentDirect # NoAttr
                                    THEN attachDirect(b1, w, element)
                                    ELSE attachCopy(b1, w, element)}
                     ELSE decodeInline(b1, w, element, root)
             IN  UNION {IF b2.code # "" THEN {b2}
                        ELSE {IF b3.code # "" THEN b3 ELSE newBLOB(b3, med, p, w) :
                                b3 \in inflate(b2, w, element)}
                        : b2 \in payloads}

\* the loop over the oneBLOB children, left at the first return
RECURSIVE forEachOneBLOB(_, _, _, _, _)
forEachOneBLOB(b, elements, root, med, p) ==
    IF elements = << >> \/ b.code # "" THEN {b}
    ELSE UNION {forEachOneBLOB(b1, Tail(elements), root, med, p) :
                  b1 \in oneBLOB(b, Head(elements), root, med, p)}

\* BaseDevicePrivate::setBLOB: every way the call can end
setBLOB(p, root, heap, med) ==
    {[b EXCEPT !.code = IF @ = "" THEN RET_OK ELSE @] :
       b \in forEachOneBLOB(BlobCall(p, heap), getElementsByTagName(root, "oneBLOB"),
                            root, med, p)}

\* an update element with one child that attaches a shared buffer directly
directAttachment(root) ==
    /\ root.tag = "setBLOBVector"
    /\ Len(root.children) = 1
    /\ root.children[1].attachedDataId # NoAttr
    /\ root.children[1].attachmentDirect # NoAttr

(***************************************************************************)
(* The inputs the model draws.                                             *)
(***************************************************************************)
Names == {"A", "B"}
Devices == {"D1", "D2"}

numberChildren(v) ==
    <<Child("defNumber", "x", v, "0", "10"), Child("defNumber", "y", "5.0", "0", "10")>>

\* definition elements of the registry specification: the same Number vector
\* with two values, and a Switch vector sent for another device
DefElements ==
    { Element("defNumberVector", "D1", "A", "Ok", "60", NoAttr, numberChildren("5.0")),
      Element("defNumberVector", "D1", "A", "Ok", "60", NoAttr, numberChildren("9.0")),
      Element("defSwitchVector", "D2", "B", "Idle", "0", NoAttr,
              <<Child("defSwitch", "s", "On", NoAttr, NoAttr)>>) }

\* definition elements of the update specification: one vector of each of
\* the four kinds setValue updates member by member
UpdateDefElements ==
    { Element("defNumberVector", "D1", "A", "Ok", "60", NoAttr, numberChildren("5.0")),
      Element("defSwitchVector", "D1", "B", "Idle", "0", NoAttr,
              <<Child("defSwitch", "s", "On", NoAttr, NoAttr)>>),
      Element("defTextVector", "D1", "T", "Ok", "0", NoAttr,
              <<Child("defText", "t", "hello", NoAttr, NoAttr)>>),
      Element("defLightVector", "D1", "L", "Ok", "0", NoAttr,
              <<Child("defLight", "l", "Busy", NoAttr, NoAttr)>>) }

\* update elements: accepted ones of the four kinds, one naming a member the
\* property lacks, and ones setValue turns down (state that is no state
\* token, no state, no name, unknown tag, unknown property)
SetElements ==
    { Element("setNumberVector", "D1", "A", "Busy", NoAttr, NoAttr,
              <<Child("oneNumber", "x", "9.0", "1", "20"),
                Child("oneNumber", "z", "9.0", NoAttr, NoAttr)>>),
      Element("setNumberVector", "D1", "A", "Bogus", "30", NoAttr,
              <<Child("oneNumber", "x", "9.0", "1", "20")>>),
      Element("setNumberVector", "D1", "A", "Ok", "30", NoAttr,
              <<Child("oneNumber", "y", "9.0", NoAttr, NoAttr)>>),
      Element("setSwitchVector", "D1", "B", "Ok", NoAttr, "hello",
              <<Child("oneSwitch", "s", "Off", NoAttr, NoAttr)>>),
      Element("setTextVector", "D1", "T", "Alert", NoAttr, NoAttr,
              <<Child("oneText", "t", "bye", NoAttr, NoAttr)>>),
      Element("setLightVector", "D1", "L", NoAttr, NoAttr, NoAttr,
              <<Child("oneLight", "l", "Alert", NoAttr, NoAttr)>>),
      Element("setLightVector", "D1", "L", "Busy", NoAttr, NoAttr,
              <<Child("oneLight", "l", "Alert", NoAttr, NoAttr)>>),
      Element("setNumberVector", "D1", NoAttr, "Ok", NoAttr, "lost", << >>),
      Element("setFooVector", "D1", "A", "Ok", NoAttr, NoAttr, << >>),
      Element("setSwitchVector", "D1", "A", "Ok", NoAttr, NoAttr,
              <<Child("oneSwitch", "x", "Off", NoAttr, NoAttr)>>) }

\* a property a driver built itself and hands to registerProperty
DriverProperty(name, type, w) ==
    [NewProperty(type) EXCEPT !.name = name, !.device = "D1", !.label = "Label",
                              !.group = "Main", !.perm = "IP_RW", !.widgets = <<w>>]

DriverProperties ==
    { DriverProperty("A", INDI_NUMBER,
                     [NewWidget(INDI_NUMBER) EXCEPT !.name = "x", !.value = 5, !.max = 10]),
      DriverProperty("A", INDI_SWITCH, [NewWidget(INDI_SWITCH) EXCEPT !.name = "s"]) }

\* the names watchProperty is called for, the kinds getProperty is asked for,
\* the names setDeviceName is called with
WatchNames == {"A"}
LookupTypes == {INDI_UNKNOWN, INDI_NUMBER}
SetDeviceNames == {"D1"}

\* children of a definition: two members, and between them a child with an
\* empty name, a child of another kind's tag and a child with no name
mixedChildren(tag, other, context) ==
    <<Child(tag, "m1", context, "0", "10"), Child(tag, "", context, "0", "10"),
      Child(other, "o", context, "0", "10"), Child(tag, NoAttr, context, "0", "10"),
      Child(tag, "m2", context, "0", "10")>>

\* definition elements of the five kinds with such children, and the
\* definitions buildProp turns down: no device, no name, a tag that is no
\* definition tag, no child with a name, no child at all
DefineElements ==
    { Element("defNumberVector", "D1", "A", "Ok", "60", NoAttr,
              mixedChildren("defNumber", "defSwitch", "5.0")),
      Element("defSwitchVector", "D1", "B", "Idle", "0", NoAttr,
              mixedChildren("defSwitch", "defNumber", "On")),
      Element("defTextVector", "D1", "T", "Ok", "0", NoAttr,
              mixedChildren("defText", "defLight", "hello")),
      Element("defLightVector", "D1", "L", "Ok", "0", NoAttr,
              mixedChildren("defLight", "defText", "Busy")),
      Element("defBLOBVector", "D1", "I", "Ok", "60", NoAttr,
              mixedChildren("defBLOB", "defNumber", "")),
      Element("defNumberVector", NoAttr, "A", "Ok", "60", NoAttr, numberChildren("5.0")),
      Element("defNumberVector", "D1", NoAttr, "Ok", "60", NoAttr, numberChildren("5.0")),
      Element("message", "D1", "A", "Ok", "60", NoAttr, numberChildren("5.0")),
      Element("defSwitchVector", "D1", "A", "Idle", "0", NoAttr,
              <<Child("defSwitch", "", "On", NoAttr, NoAttr),
                Child("defNumber", "x", "5.0", "0", "10")>>),
      Element("defTextVector", "D1", "B", "Ok", "0", NoAttr, << >>) }

DefineWatchNames == {"A", "B"}

\* the BLOB property the client defines: two members
BlobDefElements ==
    {Element("defBLOBVector", "D1", "I", "Ok", "60", NoAttr,
             <<[Child("defBLOB", "a", "", NoAttr, NoAttr) EXCEPT !.format = ".raw"],
               [Child("defBLOB", "b", "", NoAttr, NoAttr) EXCEPT !.format = ".raw"]>>)}

\* a setBLOBVector element for that property, with the text it holds
\* outside its children
BlobElement(context, children) ==
    [Element("setBLOBVector", "D1", "I", "Ok", NoAttr, NoAttr, children) EXCEPT
        !.context = context]

\* the BLOB updates: inline (plain and compressed), direct and copied
\* attachments (plain and compressed), two members at once, one of them
\* failing to inflate, a zero-size child, a child without format, a child
\* naming no member, an inline child in an element with text of its own, a
\* zero-size child (naming a member, naming none) followed by another child
BlobSetElements ==
    {BlobElement("", <<OneBLOB("a", ".fits", "3", NoAttr, NoAttr, "QUJD")>>),
     BlobElement("eJwB", <<OneBLOB("a", ".fits.z", "4", NoAttr, NoAttr, "eJwB")>>),
     BlobElement("", <<OneBLOB("a", ".fits.z", "4", NoAttr, NoAttr, "eJwB")>>),
     BlobElement("", <<OneBLOB("a", ".fits", "3", "s1", "true", "")>>),
     BlobElement("", <<OneBLOB("a", ".fits", "2", "s2", "true", "")>>),
     BlobElement("", <<OneBLOB("a", ".fits", "3", "s1", NoAttr, "")>>),
     BlobElement("", <<OneBLOB("a", ".fits.z", "4", "z1", "true", "")>>),
     BlobElement("", <<OneBLOB("a", ".fits.z", "4", "bad", "true", ""),
                       OneBLOB("b", ".fits", "3", "s1", "true", "")>>),
     BlobElement("", <<OneBLOB("a", ".fits", "3", "s1", "true", ""),
                       OneBLOB("b", ".fits", "2", "s2", "true", "")>>),
     BlobElement("", <<OneBLOB("a", ".fits", "0", NoAttr, NoAttr, "")>>),
     BlobElement("", <<OneBLOB("a", NoAttr, "3", "s1", "true", "")>>),
     BlobElement("", <<OneBLOB("q", ".fits", "3", "s1", "true", "")>>),
     BlobElement("eJwB", <<OneBLOB("a", ".fits", "3", NoAttr, NoAttr, "QUJD")>>),
     BlobElement("", <<OneBLOB("a", ".fits", "0", NoAttr, NoAttr, ""),
                       OneBLOB("b", ".fits", "2", "s2", "true", "")>>),
     BlobElement("", <<OneBLOB("q", ".fits", "0", NoAttr, NoAttr, ""),
                       OneBLOB("b", ".fits", "2", "s2", "true", "")>>)}

\* the threads that call addProperty, each with the property it adds, and
\* the threads that call getProperty, each with the name it looks up
Adders == {"add1", "add2"}

Getters == {"get1", "get2"}

Threads == Adders \cup Getters

AdderProperty ==
    [add1 |-> DriverProperty("A", INDI_NUMBER,
                  [NewWidget(INDI_NUMBER) EXCEPT !.name = "x", !.value = 5, !.max = 10]),
     add2 |-> DriverProperty("B", INDI_SWITCH, [NewWidget(INDI_SWITCH) EXCEPT !.name = "s"])]

GetterName == [get1 |-> "A", get2 |-> "B"]

\* a call a thread makes: the operation and the element, name or property
\* it is made with
Request(op, elem, name, p) == [op |-> op, elem |-> elem, name |-> name, prop |-> p]

\* threads racing on one name: registerProperty and buildProp of a property
\* named A, removeProperty of that name, and a thread that reads the state,
\* the permission and the list
CallThreads == {"reg1", "def1", "rem1", "read1"}

\* the client's receive thread, fed a definition and an update of each of
\* the five kinds, and an application thread calling addMessage
CallbackThreads == {"recv", "msg1"}

AllThreads == Threads \cup CallThreads \cup CallbackThreads

NumberDef == Element("defNumberVector", "D1", "A", "Ok", "60", NoAttr, numberChildren("5.0"))

ReceivedElements ==
    <<NumberDef,
      Element("setNumberVector", "D1", "A", "Busy", NoAttr, "hello",
              <<Child("oneNumber", "x", "9.0", "1", "20")>>),
      Element("defSwitchVector", "D1", "B", "Idle", "0", NoAttr,
              <<Child("defSwitch", "s", "On", NoAttr, NoAttr)>>),
      Element("setSwitchVector", "D1", "B", "Ok", NoAttr, NoAttr,
              <<Child("oneSwitch", "s", "Off", NoAttr, NoAttr)>>),
      Element("defTextVector", "D1", "T", "Ok", "0", NoAttr,
              <<Child("defText", "t", "hello", NoAttr, NoAttr)>>),
      Element("setTextVector", "D1", "T", "Alert", NoAttr, NoAttr,
              <<Child("oneText", "t", "bye", NoAttr, NoAttr)>>),
      Element("defLightVector", "D1", "L", "Ok", "0", NoAttr,
              <<Child("defLight", "l", "Busy", NoAttr, NoAttr)>>),
      Element("setLightVector", "D1", "L", "Busy", NoAttr, NoAttr,
              <<Child("oneLight", "l", "Alert", NoAttr, NoAttr)>>),
      Element("defBLOBVector", "D1", "I", "Ok", "60", NoAttr,
              <<[Child("defBLOB", "a", "", NoAttr, NoAttr) EXCEPT !.format = ".raw"]>>),
      BlobElement("", <<OneBLOB("a", ".fits", "3", "s1", "true", "")>>)>>

\* the calls each thread makes, in order
Requests ==
    [reg1 |-> <<Request("registerProperty", NoElement, "A", AdderProperty["add1"])>>,
     def1 |-> <<Request("buildProp", NumberDef, "A", NoProperty)>>,
     rem1 |-> <<Request("removeProperty", NoElement, "A", NoProperty)>>,
     read1 |-> <<Request("getPropertyState", NoElement, "A", NoProperty),
                 Request("getPropertyPermission", NoElement, "A", NoProperty),
                 Request("getProperties", NoElement, "", NoProperty)>>,
     recv |-> [k \in 1..Len(ReceivedElements) |->
                 Request(IF ReceivedElements[k].tag \in DOMAIN defTagTypeName
                         THEN "buildProp" ELSE "setValue",
                         ReceivedElements[k], toString(ReceivedElements[k].name),
                         NoProperty)],
     msg1 |-> <<Request("addMessage", [NoElement EXCEPT !.message = "note"], "",
                        NoProperty)>>]

(***************************************************************************)
(* State.                                                                  *)
(***************************************************************************)
VARIABLES
    pAll,             \* BaseDevicePrivate::pAll, the property list in insertion order
    deviceName,       \* BaseDevicePrivate::deviceName
    watchPropertyMap, \* the names BaseDevicePrivate::watchPropertyMap has a callback for
    mediator,         \* whether BaseDevicePrivate::mediator is set
    messageLog,       \* BaseDevicePrivate::messageLog
    watchFired,       \* history: the names whose watch callback ran since it was registered
    last,             \* the call made last: operation and arguments
    ret,              \* what the last call returned
    events,           \* the callbacks the last call invoked, in order
    heap,             \* what each address of the heap holds
    heapFaults,       \* history: the misuses of the memory routines met so far
    attachedBefore,   \* history: the member the call before the last attached a
                      \* shared buffer to directly, "" when it did no such thing
    m_Lock,           \* BaseDevicePrivate::m_Lock: the thread holding it, "" when free
    pc,               \* the step each thread is to take next in the call it makes
    found             \* what the scan of the list a thread made last came up with

\* the helper classes of the telescope simulator (scopesim_helper.h); their
\* state is apart from the device's and no operation of the device touches it
VARIABLES
    angle,            \* Angle::angle of the Angle object operated on
    compared          \* the operation applied to it last, its operand and what it returned

angleVars == <<angle, compared>>

\* the PMC8 mount driver: its guiding state and the timers it has pending
\* with the event loop
VARIABLES
    TrackState,       \* INDI::Telescope::TrackState
    GuideNSNP,        \* GuideNSNP.s, the state of the north/south guide property
    GuideWENP,        \* GuideWENP.s, the state of the west/east guide property
    GuideNSTID,       \* PMC8::GuideNSTID
    GuideWETID,       \* PMC8::GuideWETID
    isPulsingNS,      \* PMC8::isPulsingNS
    isPulsingWE,      \* PMC8::isPulsingWE
    timers,           \* the guide timers pending with the event loop: id and direction
    nextTimer,        \* the id IEAddTimer hands out next
    called            \* the operation of the driver called last and what it did

pmc8Vars == <<TrackState, GuideNSNP, GuideWENP, GuideNSTID, GuideWETID, isPulsingNS,
              isPulsingWE, timers, nextTimer, called>>

\* the imager agent: the progress of the batch it runs
VARIABLES
    ProgressNP,       \* the state of Imager::ProgressNP
    group,            \* Imager::group
    image,            \* Imager::image
    maxGroup,         \* Imager::maxGroup
    maxImage,         \* Imager::maxImage
    StatusLP,         \* whether StatusLP[CCD] and StatusLP[FILTER] are IPS_OK
    received          \* the request or update the agent handled last

imagerVars == <<ProgressNP, group, image, maxGroup, maxImage, StatusLP, received>>

\* the WandererRotatorLite driver: its polling
VARIABLES
    isConnected,      \* DefaultDevice::isConnected()
    haltcommand,      \* WandererRotatorLite::haltcommand
    positioncount,    \* WandererRotatorLite::positioncount
    GotoRotatorNP,    \* GotoRotatorNP.s
    HomeRotatorSP,    \* HomeRotatorSP.s
    mainLoopTimer,    \* whether SetTimer restarts one timer or adds one each time
    pollTimers,       \* how many timers calling TimerHit are pending
    hit               \* the operation of the driver that ran last

rotatorVars == <<isConnected, haltcommand, positioncount, GotoRotatorNP, HomeRotatorSP,
                 mainLoopTimer, pollTimers, hit>>

drivers == <<angleVars, pmc8Vars, imagerVars, rotatorVars>>

vars == <<pAll, deviceName, watchPropertyMap, mediator, messageLog, watchFired,
          last, ret, events, toIPStateFailure, heap, heapFaults,
          attachedBefore, m_Lock, pc, found, drivers>>

Call(op, elem, name, type, p) ==
    [op |-> op, elem |-> elem, name |-> name, type |-> type, prop |-> p]

Return(code, errmsg, p) == [code |-> code, errmsg |-> errmsg, prop |-> p]

\* the names a sequence of events ran the watch callback for
watched(evs) == {evs[k].prop.name : k \in {j \in 1..Len(evs) : evs[j].cb = "watch"}}

\* BaseDevicePrivate::BaseDevicePrivate: the name is empty unless the
\* environment variable INDIDEV names the device
InitBaseDevice ==
    /\ pAll = << >>
    /\ deviceName \in {"", "D1"}
    /\ watchPropertyMap = {}
    /\ mediator = FALSE
    /\ messageLog = << >>
    /\ watchFired = {}
    /\ last = Call("new", NoElement, "", INDI_UNKNOWN, NoProperty)
    /\ ret = Return(RET_VOID, "", NoProperty)
    /\ events = << >>
    /\ toIPStateFailure \in IPStates
    /\ heap = EmptyHeap
    /\ heapFaults = {}
    /\ attachedBefore = ""
    /\ m_Lock = ""
    /\ pc = [t \in AllThreads |-> 1]
    /\ found = [t \in AllThreads |-> 0]

\* Angle::Angle(): no operation applied yet
AngleIdle ==
    /\ angle = 0
    /\ compared = [op |-> "Angle()", arg |-> 0, value |-> 0]

\* PMC8::PMC8 and initProperties: not tracking, no pulse, no timer
PMC8Idle ==
    /\ TrackState = "SCOPE_IDLE"
    /\ GuideNSNP = "IPS_IDLE"
    /\ GuideWENP = "IPS_IDLE"
    /\ GuideNSTID = 0
    /\ GuideWETID = 0
    /\ isPulsingNS = FALSE
    /\ isPulsingWE = FALSE
    /\ timers = {}
    /\ nextTimer = 1
    /\ called = [op |-> "PMC8", arg |-> 0, ret |-> "", back |-> 0, command |-> "none"]

\* Imager::Imager and initProperties: one group, no batch run yet
ImagerIdle ==
    /\ ProgressNP = "IPS_IDLE"
    /\ group = 0
    /\ image = 0
    /\ maxGroup = 1
    /\ maxImage = 0
    /\ StatusLP = [CCD |-> FALSE, FILTER |-> FALSE]
    /\ received = [op |-> "Imager", arg |-> 0, crashed |-> FALSE]

\* WandererRotatorLite::WandererRotatorLite: not connected, no timer
RotatorIdle ==
    /\ isConnected = FALSE
    /\ haltcommand = FALSE
    /\ positioncount = 0
    /\ GotoRotatorNP = "IPS_IDLE"
    /\ HomeRotatorSP = "IPS_IDLE"
    /\ mainLoopTimer = TRUE
    /\ pollTimers = 0
    /\ hit = [op |-> "WandererRotatorLite", arg |-> ""]

\* the device alone: the helper classes and the drivers stay as constructed
Init == InitBaseDevice /\ AngleIdle /\ PMC8Idle /\ ImagerIdle /\ RotatorIdle

(***************************************************************************)
(* BaseDevice::buildProp                                                   *)
(***************************************************************************)
BuildProp(root, isDynamic) ==
    /\ ret.code # RET_CRASH
    /\ UNCHANGED <<drivers, toIPStateFailure, heap, heapFaults, m_Lock, pc, found>>
    /\ attachedBefore' = ""
    /\ last' = Call("buildProp", root, "", INDI_UNKNOWN, NoProperty)
    /\ UNCHANGED <<watchPropertyMap, mediator, messageLog>>
    /\ IF ~crackDN(root)
       THEN /\ ret' = Return(RET_ERR, "crackDN", NoProperty)
            /\ events' = << >>
            /\ UNCHANGED <<pAll, deviceName, watchFired>>
       ELSE IF root.tag \notin DOMAIN defTagTypeName
       THEN /\ ret' = Return(RET_ERR, "Unable to process tag", NoProperty)
            /\ events' = << >>
            /\ UNCHANGED <<pAll, deviceName, watchFired>>
       ELSE IF isDuplicate(pAll, toString(root.name))
       THEN /\ ret' = Return(INDI_PROPERTY_DUPLICATED, "", NoProperty)
            /\ events' = << >>
            /\ UNCHANGED <<pAll, deviceName, watchFired>>
       ELSE LET type == defTagTypeName[root.tag]
                devName == IF deviceName = "" THEN toString(root.device) ELSE deviceName
                typed == buildTyped(type, root)
            IN  /\ deviceName' = devName
                /\ IF ~isValid(typed) \/ isEmpty(typed)
                   THEN /\ ret' = Return(RET_OK, "", NoProperty)
                        /\ events' = << >>
                        /\ UNCHANGED <<pAll, watchFired>>
                   ELSE \E perm \in toIPerm(root.perm) :
                          LET p == setMetadata(typed, root, type, isDynamic, devName, perm)
                              evs == buildPropEvents(pAll, watchPropertyMap, mediator, p)
                          IN  /\ Len(pAll) < MaxProps
                              /\ pAll' = addProperty(pAll, p)
                              /\ events' = evs
                              /\ watchFired' = watchFired \cup watched(evs)
                              /\ ret' = Return(RET_OK, "", NoProperty)

(***************************************************************************)
(* BaseDevice::registerProperty(INDI::Property &)                          *)
(***************************************************************************)
RegisterProperty(property) ==
    /\ ret.code # RET_CRASH
    /\ UNCHANGED <<drivers, toIPStateFailure, heap, heapFaults, m_Lock, pc, found>>
    /\ attachedBefore' = ""
    /\ last' = Call("registerProperty", NoElement, property.name, property.type, property)
    /\ ret' = Return(RET_VOID, "", NoProperty)
    /\ UNCHANGED <<deviceName, watchPropertyMap, mediator, messageLog>>
    /\ IF property.type = INDI_UNKNOWN
       THEN /\ events' = << >>
            /\ UNCHANGED <<pAll, watchFired>>
       ELSE LET i == getProperty(pAll, property.name, property.type)
            IN  IF i # 0
                THEN /\ pAll' = [pAll EXCEPT ![i].registered = TRUE]
                     /\ events' = << >>
                     /\ UNCHANGED watchFired
                ELSE LET evs == addPropertyEvents(pAll, watchPropertyMap, property)
                     IN  /\ Len(pAll) < MaxProps
                         /\ pAll' = addProperty(pAll, property)
                         /\ events' = evs
                         /\ watchFired' = watchFired \cup watched(evs)

(***************************************************************************)
(* BaseDevice::removeProperty                                              *)
(***************************************************************************)
RemoveProperty(name) ==
    /\ ret.code # RET_CRASH
    /\ UNCHANGED <<drivers, toIPStateFailure, heap, heapFaults, m_Lock, pc, found>>
    /\ attachedBefore' = ""
    /\ last' = Call("removeProperty", NoElement, name, INDI_UNKNOWN, NoProperty)
    /\ pAll' = erase_if(pAll, name)
    /\ ret' = Return(removePropertyResult(pAll, name),
                     IF removePropertyResult(pAll, name) # RET_OK
                     THEN "Error: Property not found in device" ELSE "",
                     NoProperty)
    /\ events' = << >>
    /\ UNCHANGED <<deviceName, watchPropertyMap, mediator, messageLog, watchFired>>

(***************************************************************************)
(* BaseDevice::getProperty                                                 *)
(***************************************************************************)
GetProperty(name, type) ==
    /\ ret.code # RET_CRASH
    /\ UNCHANGED <<drivers, toIPStateFailure, heap, heapFaults, m_Lock, pc, found>>
    /\ attachedBefore' = ""
    /\ last' = Call("getProperty", NoElement, name, type, NoProperty)
    /\ ret' = Return(RET_VOID, "", propertyAt(pAll, getProperty(pAll, name, type)))
    /\ events' = << >>
    /\ UNCHANGED <<pAll, deviceName, watchPropertyMap, mediator, messageLog, watchFired>>

(***************************************************************************)
(* BaseDevice::watchProperty, setMediator, setDeviceName                   *)
(***************************************************************************)
WatchProperty(name) ==
    /\ ret.code # RET_CRASH
    /\ UNCHANGED <<drivers, toIPStateFailure, heap, heapFaults, m_Lock, pc, found>>
    /\ attachedBefore' = ""
    /\ last' = Call("watchProperty", NoElement, name, INDI_UNKNOWN, NoProperty)
    /\ watchPropertyMap' = watchPropertyMap \cup {name}
    /\ watchFired' = watchFired \ {name}
    /\ ret' = Return(RET_VOID, "", NoProperty)
    /\ events' = << >>
    /\ UNCHANGED <<pAll, deviceName, mediator, messageLog>>

SetMediator(m) ==
    /\ ret.code # RET_CRASH
    /\ UNCHANGED <<drivers, toIPStateFailure, heap, heapFaults, m_Lock, pc, found>>
    /\ attachedBefore' = ""
    /\ last' = Call("setMediator", NoElement, "", INDI_UNKNOWN, NoProperty)
    /\ mediator' = m
    /\ ret' = Return(RET_VOID, "", NoProperty)
    /\ events' = << >>
    /\ UNCHANGED <<pAll, deviceName, watchPropertyMap, messageLog, watchFired>>

SetDeviceName(dev) ==
    /\ ret.code # RET_CRASH
    /\ UNCHANGED <<drivers, toIPStateFailure, heap, heapFaults, m_Lock, pc, found>>
    /\ attachedBefore' = ""
    /\ last' = Call("setDeviceName", NoElement, dev, INDI_UNKNOWN, NoProperty)
    /\ deviceName' = dev
    /\ ret' = Return(RET_VOID, "", NoProperty)
    /\ events' = << >>
    /\ UNCHANGED <<pAll, watchPropertyMap, mediator, messageLog, watchFired>>

(***************************************************************************)
(* Property::setRegistered on a property of the list, through a handle the *)
(* application holds                                                       *)
(***************************************************************************)
SetRegistered(i, registered) ==
    /\ i \in 1..Len(pAll)
    /\ ret.code # RET_CRASH
    /\ UNCHANGED <<drivers, toIPStateFailure, heap, heapFaults, m_Lock, pc, found>>
    /\ attachedBefore' = ""
    /\ last' = Call("setRegistered", NoElement, pAll[i].name, pAll[i].type, NoProperty)
    /\ pAll' = [pAll EXCEPT ![i].registered = registered]
    /\ ret' = Return(RET_VOID, "", NoProperty)
    /\ events' = << >>
    /\ UNCHANGED <<deviceName, watchPropertyMap, mediator, messageLog, watchFired>>

(***************************************************************************)
(* BaseDevice::setValue                                                    *)
(***************************************************************************)
SetValue(root) ==
    /\ ret.code # RET_CRASH
    /\ last' = Call("setValue", root, "", INDI_UNKNOWN, NoProperty)
    /\ UNCHANGED <<deviceName, watchPropertyMap, mediator, watchFired, toIPStateFailure, drivers,
                   m_Lock, pc, found>>
    /\ attachedBefore' = IF directAttachment(last.elem) /\ ret.code = RET_OK
                         THEN last.elem.children[1].name ELSE ""
    /\ IF root.name = NoAttr
       THEN /\ ret' = Return(RET_ERR, "unable to find name attribute", NoProperty)
            /\ events' = << >>
            /\ UNCHANGED <<pAll, messageLog, heap, heapFaults>>
       ELSE LET hasMsg == checkMessage(root)
                msgEvents == IF hasMsg
                             THEN addMessageEvents(messageLog, mediator, doMessage(root))
                             ELSE << >>
            IN
            /\ hasMsg => Len(messageLog) < MaxLog
            /\ messageLog' = IF hasMsg THEN addMessage(messageLog, doMessage(root))
                             ELSE messageLog
            /\ IF root.tag \notin DOMAIN setTagTypeName
               THEN /\ ret' = Return(RET_ERR, "Unable to process tag", NoProperty)
                    /\ events' = msgEvents
                    /\ UNCHANGED <<pAll, heap, heapFaults>>
               ELSE LET type == setTagTypeName[root.tag]
                        i == getProperty(pAll, toString(root.name), type)
                    IN  IF i = 0
                        THEN /\ ret' = Return(RET_ERR, "Could not find property", NoProperty)
                             /\ events' = msgEvents
                             /\ UNCHANGED <<pAll, heap, heapFaults>>
                        ELSE \E st \in toIPState(root.state) :
                               LET p1 == [pAll[i] EXCEPT !.state = st]
                                   p2 == updateTimeout(p1, root)
                                   p3 == [p2 EXCEPT !.widgets =
                                             for_property(type, @, root.children)]
                               IN  IF stateAborts(root)
                                   THEN /\ pAll' = [pAll EXCEPT ![i] = p1]
                                        /\ ret' = Return(RET_ERR, "bogus state", NoProperty)
                                        /\ events' = msgEvents
                                        /\ UNCHANGED <<heap, heapFaults>>
                                   ELSE IF type = INDI_BLOB
                                   THEN \E b \in setBLOB(p2, root, heap, mediator) :
                                          /\ pAll' = [pAll EXCEPT ![i] =
                                                         [p2 EXCEPT !.widgets = b.widgets]]
                                          /\ heap' = b.heap
                                          /\ heapFaults' = heapFaults \cup b.faults
                                          /\ ret' = Return(b.code, b.errmsg, NoProperty)
                                          /\ events' = msgEvents \o b.events
                                   ELSE /\ pAll' = [pAll EXCEPT ![i] = p3]
                                        /\ ret' = Return(RET_OK, "", NoProperty)
                                        /\ events' = msgEvents \o perKindEvents(
                                               mediator, type, p3, [pAll EXCEPT ![i] = p3])
                                        /\ UNCHANGED <<heap, heapFaults>>

(***************************************************************************)
(* The device as a driver and a client use its registry.                   *)
(***************************************************************************)
Next ==
    \/ \E root \in DefElements : BuildProp(root, FALSE)
    \/ \E property \in DriverProperties : RegisterProperty(property)
    \/ \E name \in Names : RemoveProperty(name)
    \/ \E name \in Names, type \in LookupTypes : GetProperty(name, type)
    \/ \E name \in WatchNames : WatchProperty(name)
    \/ \E m \in BOOLEAN : SetMediator(m)
    \/ \E dev \in SetDeviceNames : SetDeviceName(dev)
    \/ \E i \in 1..MaxProps, registered \in BOOLEAN : SetRegistered(i, registered)

\* No element or property of this specification carries state text that
\* fails to convert: the value of toIPStateFailure is never read here, and
\* one value stands for all.
InitRegistry == Init /\ toIPStateFailure = "IPS_IDLE"

Spec == InitRegistry /\ [][Next]_vars

(***************************************************************************)
(* The device as a client feeds it definition and update elements.         *)
(***************************************************************************)
NextUpdate ==
    \/ \E root \in UpdateDefElements : BuildProp(root, FALSE)
    \/ \E root \in SetElements : SetValue(root)
    \/ \E m \in BOOLEAN : SetMediator(m)

SpecUpdate == Init /\ [][NextUpdate]_vars

(***************************************************************************)
(* The device as a client feeds it a BLOB definition and BLOB updates.     *)
(***************************************************************************)
NextBlob ==
    \/ \E root \in BlobDefElements : BuildProp(root, FALSE)
    \/ \E root \in BlobSetElements : SetValue(root)
    \/ \E m \in BOOLEAN : SetMediator(m)

SpecBlob == Init /\ [][NextBlob]_vars

(***************************************************************************)
(* The device as a client feeds it definitions, well formed or not.        *)
(***************************************************************************)
NextDefine ==
    \/ \E root \in DefineElements : BuildProp(root, FALSE)
    \/ \E name \in DefineWatchNames : WatchProperty(name)
    \/ \E m \in BOOLEAN : SetMediator(m)

SpecDefine == InitRegistry /\ [][NextDefine]_vars

(***************************************************************************)
(* Threads.  A call is the sequence of its steps; a thread takes them one  *)
(* at a time and other threads run in between.  "lock" waits for m_Lock    *)
(* and takes it, "unlock" is the end of the scope of the lock object.      *)
(***************************************************************************)
\* BaseDevicePrivate::addProperty with push_back outside any lock
addPropertyStepsUnlocked == <<"push_back", "watch">>

\* BaseDevicePrivate::addProperty: push_back in the scope of the lock, then
\* the look-up of the watch callback
addPropertySteps == <<"lock", "push_back", "unlock", "watch">>

\* BaseDevice::getProperty: the scan of the list in the scope of the lock
getPropertySteps == <<"lock", "scan", "unlock">>

\* what a callback of the receive and application threads does: it calls
\* getProperty of the device it was invoked by
callbackBody == <<"lock", "reenter", "unlock">>

\* BaseDevice::registerProperty: getProperty, then setRegistered on the
\* property found or addProperty
registerPropertySteps(body) ==
    getPropertySteps \o <<"registered">> \o addPropertySteps \o body

\* BaseDevice::buildProp: crackDN and the tag table, getProperty for the
\* duplicate test, the property built, addProperty, the mediator's newProperty
buildPropSteps(body) ==
    <<"crackDN">> \o getPropertySteps \o <<"build">> \o addPropertySteps \o body
    \o <<"newProperty">> \o body

\* BaseDevice::removeProperty: erase_if in the scope of the lock
removePropertySteps == <<"lock", "erase_if", "unlock">>

\* BaseDevice::getPropertyState, getPropertyPermission, getProperties: the
\* list read, no lock taken
readSteps == <<"read">>

\* BaseDevice::addMessage with the mediator notified before guard.unlock()
addMessageStepsNotifyingLocked(body) ==
    <<"lock", "push_message", "newMessage">> \o body \o <<"unlock">>

\* BaseDevice::addMessage: push_back under the lock, guard.unlock(), then
\* the mediator's newMessage with messageLog.size() - 1
addMessageSteps(body) == <<"lock", "push_message", "unlock", "newMessage">> \o body

\* BaseDevicePrivate::setBLOB: the body of the loop and newBLOB, child by child
setBLOBSteps(root, body) ==
    LET one == <<"oneBLOB", "newBLOB">> \o body
        n == Len(getElementsByTagName(root, "oneBLOB"))
    IN  [i \in 1..(n * Len(one)) |-> one[((i - 1) % Len(one)) + 1]]

\* BaseDevice::setValue: the name test, checkMessage, the tag table,
\* getProperty, the update of the property, the mediator's callback
setValueSteps(root, body) ==
    IF root.name = NoAttr THEN << >>
    ELSE (IF checkMessage(root) THEN addMessageSteps(body) ELSE << >>)
         \o (IF root.tag \notin DOMAIN setTagTypeName THEN << >>
             ELSE getPropertySteps \o <<"update">>
                  \o (IF setTagTypeName[root.tag] = INDI_BLOB
                      THEN setBLOBSteps(root, body)
                      ELSE <<perKindCallback[setTagTypeName[root.tag]]>> \o body))

callSteps(r, body) ==
    CASE r.op = "registerProperty" -> registerPropertySteps(body)
      [] r.op = "buildProp" -> buildPropSteps(body)
      [] r.op = "removeProperty" -> removePropertySteps
      [] r.op = "addMessage" -> addMessageSteps(body)
      [] r.op = "setValue" -> setValueSteps(r.elem, body)
      [] OTHER -> readSteps

\* the steps of a sequence of calls, each with the position of its call
RECURSIVE programOf(_, _, _)
programOf(requests, k, body) ==
    IF k > Len(requests) THEN << >>
    ELSE LET s == callSteps(requests[k], body)
         IN  [i \in 1..Len(s) |-> [step |-> s[i], call |-> k]]
             \o programOf(requests, k + 1, body)

Programs ==
    [t \in CallThreads \cup CallbackThreads |->
        programOf(Requests[t], 1, IF t \in CallbackThreads THEN callbackBody ELSE << >>)]

steps(t) ==
    IF t \in Adders THEN addPropertySteps
    ELSE IF t \in Getters THEN getPropertySteps
    ELSE [i \in 1..Len(Programs[t]) |-> Programs[t][i].step]

returned(t) == pc[t] > Len(steps(t))

\* the step a thread is to take next
at(t, step) == ~returned(t) /\ steps(t)[pc[t]] = step

proceed(t) == pc' = [pc EXCEPT ![t] = @ + 1]

\* the call a thread is in, and the step after the last one of that call
calling(t) == Programs[t][pc[t]].call

request(t) == Requests[t][calling(t)]

endOfCall(t) ==
    1 + CHOOSE i \in 1..Len(Programs[t]) :
            /\ Programs[t][i].call = calling(t)
            /\ \A j \in 1..Len(Programs[t]) : Programs[t][j].call = calling(t) => j <= i

\* a return in the middle of a call
leave(t) == pc' = [pc EXCEPT ![t] = endOfCall(t)]

\* a callback that is not installed: its steps are not taken
skip(t) ==
    pc' = [pc EXCEPT ![t] = @ + 1 + IF t \in CallbackThreads THEN Len(callbackBody) ELSE 0]

\* buildProp, lines 319-458: the property built from a definition element
\* that names its permission
built(root) ==
    LET type == defTagTypeName[root.tag]
    IN  setMetadata(buildTyped(type, root), root, type, FALSE, deviceName,
                    CHOOSE perm \in toIPerm(root.perm) : TRUE)

\* the property a thread hands to addProperty
adding(t) ==
    IF t \in Adders THEN AdderProperty[t]
    ELSE IF request(t).op = "buildProp" THEN built(request(t).elem)
    ELSE request(t).prop

\* the name and kind a thread calls getProperty with
lookup(t) ==
    IF t \in Getters THEN [name |-> GetterName[t], type |-> INDI_UNKNOWN]
    ELSE CASE request(t).op = "registerProperty" ->
                [name |-> request(t).prop.name, type |-> request(t).prop.type]
           [] request(t).op = "setValue" ->
                [name |-> toString(request(t).elem.name),
                 type |-> setTagTypeName[request(t).elem.tag]]
           [] OTHER -> [name |-> toString(request(t).elem.name), type |-> INDI_UNKNOWN]

sequential ==
    <<deviceName, mediator, messageLog, last, ret, toIPStateFailure, heap, heapFaults,
      attachedBefore, drivers>>

\* what no step of a thread changes
untouched == <<watchPropertyMap, mediator, last, ret, toIPStateFailure, attachedBefore,
               drivers>>

\* std::unique_lock / std::lock_guard constructed on m_Lock
Lock(t) ==
    /\ at(t, "lock")
    /\ m_Lock = ""
    /\ m_Lock' = t
    /\ proceed(t)
    /\ UNCHANGED <<sequential, pAll, watchPropertyMap, watchFired, events, found>>

\* the lock object going out of scope, or guard.unlock()
Unlock(t) ==
    /\ at(t, "unlock")
    /\ m_Lock' = ""
    /\ proceed(t)
    /\ UNCHANGED <<sequential, pAll, watchPropertyMap, watchFired, events, found>>

\* addProperty: pAll.push_back(property)
PushBack(t) ==
    /\ at(t, "push_back")
    /\ pAll' = addProperty(pAll, adding(t))
    /\ proceed(t)
    /\ UNCHANGED <<sequential, m_Lock, watchPropertyMap, watchFired, events, found>>

\* addProperty: the watch callback of the property's name, if any, handed
\* the property while the list is as other threads have left it
Watch(t) ==
    /\ at(t, "watch")
    /\ IF adding(t).name \in watchPropertyMap
       THEN /\ events' = Append(events, Event("watch", adding(t), pAll, -1))
            /\ watchFired' = watchFired \cup {adding(t).name}
            /\ proceed(t)
       ELSE /\ skip(t)
            /\ UNCHANGED <<events, watchFired>>
    /\ UNCHANGED <<sequential, m_Lock, pAll, watchPropertyMap, found>>

\* getProperty: the loop over the list and the value returned
Scan(t) ==
    /\ at(t, "scan")
    /\ found' = [found EXCEPT ![t] = getProperty(pAll, lookup(t).name, lookup(t).type)]
    /\ proceed(t)
    /\ UNCHANGED <<sequential, m_Lock, pAll, watchPropertyMap, watchFired, events>>

\* buildProp, lines 284-309: crackDN and the tag table
CrackDN(t) ==
    /\ at(t, "crackDN")
    /\ IF crackDN(request(t).elem) /\ request(t).elem.tag \in DOMAIN defTagTypeName
       THEN proceed(t) ELSE leave(t)
    /\ UNCHANGED <<untouched, pAll, deviceName, messageLog, watchFired, events, heap,
                   heapFaults, m_Lock, found>>

\* buildProp, lines 314-443: INDI_PROPERTY_DUPLICATED when getProperty found
\* the name, the device name bound, 0 when the property built has no member
Build(t) ==
    /\ at(t, "build")
    /\ IF found[t] # 0
       THEN /\ leave(t)
            /\ UNCHANGED deviceName
       ELSE /\ deviceName' = IF deviceName = "" THEN toString(request(t).elem.device)
                             ELSE deviceName
            /\ IF isEmpty(buildTyped(defTagTypeName[request(t).elem.tag], request(t).elem))
               THEN leave(t) ELSE proceed(t)
    /\ UNCHANGED <<untouched, pAll, messageLog, watchFired, events, heap, heapFaults,
                   m_Lock, found>>

\* buildProp, lines 463-464: the mediator's newProperty
NotifyNewProperty(t) ==
    /\ at(t, "newProperty")
    /\ IF mediator
       THEN /\ events' = Append(events, Event("newProperty", adding(t), pAll, -1))
            /\ proceed(t)
       ELSE /\ skip(t)
            /\ UNCHANGED events
    /\ UNCHANGED <<untouched, pAll, deviceName, messageLog, watchFired, heap, heapFaults,
                   m_Lock, found>>

\* registerProperty, lines 842-850: setRegistered(true) on the property
\* getProperty found (it returns registered properties only), addProperty
\* when it found none
Registered(t) ==
    /\ at(t, "registered")
    /\ IF found[t] # 0 THEN leave(t) ELSE proceed(t)
    /\ UNCHANGED <<untouched, pAll, deviceName, messageLog, watchFired, events, heap,
                   heapFaults, m_Lock, found>>

\* removeProperty: pAll.erase_if(...)
EraseIf(t) ==
    /\ at(t, "erase_if")
    /\ pAll' = erase_if(pAll, request(t).name)
    /\ proceed(t)
    /\ UNCHANGED <<untouched, deviceName, messageLog, watchFired, events, heap, heapFaults,
                   m_Lock, found>>

\* a thread in the scope of the lock about to change the list
changing == \E u \in AllThreads : m_Lock = u /\ (at(u, "push_back") \/ at(u, "erase_if"))

\* getPropertyState, getPropertyPermission: the loop over getProperties(),
\* the first property of that name (0: none, the default is returned);
\* getProperties: the list handed out.  Read while another thread changes
\* the list, the loop can come up with any position.
Read(t) ==
    /\ at(t, "read")
    /\ LET hits == {i \in 1..Len(pAll) : isNameMatch(pAll[i], request(t).name)}
       IN  \E i \in IF changing THEN 0..Len(pAll)
                    ELSE IF hits = {} THEN {0} ELSE {Min(hits)} :
              found' = [found EXCEPT ![t] = IF request(t).op = "getProperties" THEN 0 ELSE i]
    /\ proceed(t)
    /\ UNCHANGED <<untouched, pAll, deviceName, messageLog, watchFired, events, heap,
                   heapFaults, m_Lock>>

\* addMessage: messageLog.push_back(msg)
PushMessage(t) ==
    /\ at(t, "push_message")
    /\ messageLog' = addMessage(messageLog, doMessage(request(t).elem))
    /\ proceed(t)
    /\ UNCHANGED <<untouched, pAll, deviceName, watchFired, events, heap, heapFaults,
                   m_Lock, found>>

\* addMessage: mediator->newMessage(this, messageLog.size() - 1).  size()
\* read while another thread pushes is the size before or after that push.
NewMessage(t) ==
    /\ at(t, "newMessage")
    /\ IF mediator
       THEN /\ \E size \in {Len(messageLog)} \cup
                           {Len(messageLog) + 1 :
                              u \in {v \in AllThreads : m_Lock = v /\ at(v, "push_message")}} :
                   events' = Append(events, Event("newMessage", NoProperty, << >>, size - 1))
            /\ proceed(t)
       ELSE /\ skip(t)
            /\ UNCHANGED events
    /\ UNCHANGED <<untouched, pAll, deviceName, messageLog, watchFired, heap, heapFaults,
                   m_Lock, found>>

\* setValue, lines 541-600: -1 when getProperty found nothing, the state
\* set, -1 when the state text did not convert, the timeout, and for the
\* kinds other than BLOB the members the children name
Update(t) ==
    /\ at(t, "update")
    /\ LET root == request(t).elem
           type == setTagTypeName[root.tag]
           i == found[t]
       IN  IF i = 0
           THEN /\ leave(t)
                /\ UNCHANGED pAll
           ELSE \E st \in toIPState(root.state) :
                  LET p1 == [pAll[i] EXCEPT !.state = st]
                      p2 == updateTimeout(p1, root)
                      p3 == [p2 EXCEPT !.widgets = for_property(type, @, root.children)]
                  IN  IF stateAborts(root)
                      THEN /\ pAll' = [pAll EXCEPT ![i] = p1]
                           /\ leave(t)
                      ELSE /\ pAll' = [pAll EXCEPT ![i] = IF type = INDI_BLOB THEN p2 ELSE p3]
                           /\ proceed(t)
    /\ UNCHANGED <<untouched, deviceName, messageLog, watchFired, events, heap, heapFaults,
                   m_Lock, found>>

\* setBLOB: the oneBLOB child the thread has come to
blobChild(t) ==
    LET k == Cardinality({j \in 1..pc[t] : /\ Programs[t][j].call = calling(t)
                                           /\ Programs[t][j].step = "oneBLOB"})
    IN  getElementsByTagName(request(t).elem, "oneBLOB")[k]

\* setBLOB: the member findWidgetByName returns for that child
blobMember(t) ==
    LET w == findWidgetByName(pAll[found[t]].widgets, toString(blobChild(t).name))
    IN  IF w = 0 THEN NullWidget ELSE pAll[found[t]].widgets[w].name

\* setBLOB: the body of the loop for the child the thread has come to, up
\* to the notification of the mediator
OneBlob(t) ==
    /\ at(t, "oneBLOB")
    /\ LET root == request(t).elem
           i == found[t]
           element == blobChild(t)
       IN  \E b \in oneBLOB(BlobCall(pAll[i], heap), element, root, FALSE, pAll[i]) :
             /\ pAll' = [pAll EXCEPT ![i].widgets = b.widgets]
             /\ heap' = b.heap
             /\ heapFaults' = heapFaults \cup b.faults
             /\ IF b.code # "" THEN leave(t) ELSE proceed(t)
    /\ UNCHANGED <<untouched, deviceName, messageLog, watchFired, events, m_Lock, found>>

\* setValue, lines 573-620, and setBLOB: the mediator's newNumber,
\* newSwitch, newText, newLight or newBLOB
Notify(t) ==
    /\ \E cb \in PerKindCallbacks :
          /\ at(t, cb)
          /\ IF mediator
             THEN /\ events' = Append(events,
                                     [Event(cb, pAll[found[t]], pAll, -1) EXCEPT
                                         !.widget = IF cb = "newBLOB" THEN blobMember(t)
                                                    ELSE ""])
                  /\ proceed(t)
             ELSE /\ skip(t)
                  /\ UNCHANGED events
    /\ UNCHANGED <<untouched, pAll, deviceName, messageLog, watchFired, heap, heapFaults,
                   m_Lock, found>>

\* a callback's getProperty: the loop over the list in the scope of the lock
Reenter(t) ==
    /\ at(t, "reenter")
    /\ proceed(t)
    /\ UNCHANGED <<untouched, pAll, deviceName, messageLog, watchFired, events, heap,
                   heapFaults, m_Lock, found>>

NextThreads ==
    \/ \E t \in Threads : Lock(t)
    \/ \E t \in Threads : Unlock(t)
    \/ \E t \in Adders : PushBack(t)
    \/ \E t \in Adders : Watch(t)
    \/ \E t \in Getters : Scan(t)

SpecThreads == Init /\ [][NextThreads]_vars

(***************************************************************************)
(* Threads racing on one name.  The application installs the mediator and  *)
(* the watch callback before it starts the threads.                        *)
(***************************************************************************)
started == \E t \in AllThreads : pc[t] # 1

WatchFirst(name) == ~started /\ WatchProperty(name)

MediatorFirst(m) == ~started /\ SetMediator(m)

NextCalls ==
    \/ \E name \in WatchNames : WatchFirst(name)
    \/ \E m \in BOOLEAN : MediatorFirst(m)
    \/ \E t \in CallThreads : Lock(t)
    \/ \E t \in CallThreads : Unlock(t)
    \/ \E t \in CallThreads : Scan(t)
    \/ \E t \in CallThreads : Registered(t)
    \/ \E t \in CallThreads : CrackDN(t)
    \/ \E t \in CallThreads : Build(t)
    \/ \E t \in CallThreads : PushBack(t)
    \/ \E t \in CallThreads : Watch(t)
    \/ \E t \in CallThreads : NotifyNewProperty(t)
    \/ \E t \in CallThreads : EraseIf(t)
    \/ \E t \in CallThreads : Read(t)

SpecCalls == InitRegistry /\ [][NextCalls]_vars

(***************************************************************************)
(* The receive thread and an application thread, with callbacks that call  *)
(* back into the device.                                                   *)
(***************************************************************************)
NextCallbacks ==
    \/ \E name \in WatchNames : WatchFirst(name)
    \/ \E m \in BOOLEAN : MediatorFirst(m)
    \/ \E t \in CallbackThreads : Lock(t)
    \/ \E t \in CallbackThreads : Unlock(t)
    \/ \E t \in CallbackThreads : Scan(t)
    \/ \E t \in CallbackThreads : CrackDN(t)
    \/ \E t \in CallbackThreads : Build(t)
    \/ \E t \in CallbackThreads : PushBack(t)
    \/ \E t \in CallbackThreads : Watch(t)
    \/ \E t \in CallbackThreads : NotifyNewProperty(t)
    \/ \E t \in CallbackThreads : PushMessage(t)
    \/ \E t \in CallbackThreads : NewMessage(t)
    \/ \E t \in CallbackThreads : Update(t)
    \/ \E t \in CallbackThreads : OneBlob(t)
    \/ \E t \in CallbackThreads : Notify(t)
    \/ \E t \in CallbackThreads : Reenter(t)

SpecCallbacks == InitRegistry /\ [][NextCallbacks]_vars

(***************************************************************************)
(* Properties of the registry.                                             *)
(***************************************************************************)
\* the positions of the list holding a property of that name
namedAt(props, name) == {i \in 1..Len(props) : props[i].name = name}

\* the positions holding a property of that name and kind (any kind for
\* INDI_UNKNOWN)
matchingAt(props, name, type) ==
    {i \in namedAt(props, name) : type = INDI_UNKNOWN \/ props[i].type = type}

\* a list without its i-th entry
without(props, i) == SubSeq(props, 1, i - 1) \o SubSeq(props, i + 1, Len(props))

\* a definition element that has a device, a name and one of the five tags
wellFormedDef(root) ==
    /\ root.device # NoAttr
    /\ root.name # NoAttr
    /\ root.tag \in {"defNumberVector", "defSwitchVector", "defTextVector",
                     "defLightVector", "defBLOBVector"}

\* C1: when buildProp parses a well-formed definition element whose name is
\* that of a property already in the list, it returns
\* INDI_PROPERTY_DUPLICATED, invokes no callback and leaves the list, and
\* with it the existing property, as it was.
C1_DuplicateDefinitionRejected ==
    [][(/\ last'.op = "buildProp"
        /\ wellFormedDef(last'.elem)
        /\ namedAt(pAll, last'.elem.name) # {})
       => (/\ ret'.code = INDI_PROPERTY_DUPLICATED
           /\ events' = << >>
           /\ pAll' = pAll)]_vars

\* C2: the property list never holds two entries of the same name.
C2_NoTwoEntriesOfOneName ==
    \A i, j \in 1..Len(pAll) : pAll[i].name = pAll[j].name => i = j

C5_RegisterLeavesOneRegisteredEntry ==
    (last.op = "registerProperty" /\ last.type # INDI_UNKNOWN)
    => LET c == {i \in namedAt(pAll, last.name) : pAll[i].type = last.type}
       IN  /\ Cardinality(c) = 1
           /\ \A i \in c : pAll[i].registered

\* C6: once the device name is not empty, a definition or update element for
\* another device is rejected and leaves the device name and the list as
\* they were.
C6_OtherDeviceRejected ==
    [][(/\ last'.op \in {"buildProp", "setValue"}
        /\ deviceName # ""
        /\ last'.elem.device \notin {NoAttr, deviceName})
       => (/\ ret'.code # RET_OK
           /\ pAll' = pAll
           /\ deviceName' = deviceName)]_vars

\* C7: a watch callback runs once per registration: when it already ran for
\* a name since watchProperty was last called for that name, and the
\* property of that name has been removed, defining the name again does not
\* run it a second time.
C7_WatchRunsOncePerRegistration ==
    [][\A name \in watched(events') :
          ~(name \in watchFired /\ namedAt(pAll, name) = {})]_vars

\* the positions of the events of one callback
eventsOf(evs, cb) == {k \in 1..Len(evs) : evs[k].cb = cb}

\* the property handed to a callback is in the list and carries the members
\* and the metadata of the definition element
fullyDefined(ev, props, root) ==
    /\ ev.listed
    /\ \E i \in 1..Len(props) : props[i] = ev.prop
    /\ ev.prop.name = root.name
    /\ ev.prop.widgets # << >>
    /\ \A k \in 1..Len(ev.prop.widgets) :
          \E c \in 1..Len(root.children) : root.children[c].name = ev.prop.widgets[k].name
    /\ ev.prop.label = root.label
    /\ ev.prop.group = root.group
    /\ ev.prop.state = IPStateTokens[root.state]
    /\ ev.prop.timeout = NumberTexts[root.timeout]
    /\ ev.prop.type # INDI_LIGHT => ev.prop.perm = IPermTokens[root.perm]

\* C8: for an accepted definition element the watch callback of the
\* property's name runs before the mediator's newProperty, and each runs
\* with the property in the list, its members and metadata set.
C8_WatchThenNewPropertyAfterInsertion ==
    (last.op = "buildProp" /\ events # << >>)
    => /\ \A j \in eventsOf(events, "watch"), k \in eventsOf(events, "newProperty") : j < k
       /\ \A k \in 1..Len(events) :
             /\ events[k].cb \in {"watch", "newProperty"}
             /\ fullyDefined(events[k], pAll, last.elem)
       /\ Cardinality(eventsOf(events, "watch")) <= 1
       /\ Cardinality(eventsOf(events, "newProperty")) <= 1
       /\ (last.elem.name \in watchPropertyMap) => eventsOf(events, "watch") # {}
       /\ mediator => eventsOf(events, "newProperty") # {}

\* C8 witness: a definition ran both the watch callback and newProperty.
C8_Witness ==
    /\ last.op = "buildProp"
    /\ ret.code = RET_OK
    /\ eventsOf(events, "watch") # {}
    /\ eventsOf(events, "newProperty") # {}

\* C9: whenever a property is inserted into the list while a mediator is
\* attached, newProperty is invoked exactly once for it, after the watch
\* callback.
C9_InsertionNotifiesMediator ==
    [][(mediator /\ Len(pAll') = Len(pAll) + 1)
       => (/\ Cardinality(eventsOf(events', "newProperty")) = 1
           /\ \A k \in eventsOf(events', "newProperty") :
                 /\ events'[k].prop = pAll'[Len(pAll')]
                 /\ \A j \in eventsOf(events', "watch") : j < k)]_vars

(***************************************************************************)
(* Properties of updates.                                                  *)
(***************************************************************************)
\* the members of every property of the list
allWidgets(props) == [i \in 1..Len(props) |-> props[i].widgets]

\* C10: when the state attribute of an update element is no state token,
\* setValue returns -1, changes no member (value, min, max) and invokes no
\* per-kind mediator callback.
C10_BogusStateTouchesNoWidget ==
    [][(/\ last'.op = "setValue"
        /\ last'.elem.state \notin {"Idle", "Ok", "Busy", "Alert"})
       => (/\ ret'.code = RET_ERR
           /\ allWidgets(pAll') = allWidgets(pAll)
           /\ \A k \in 1..Len(events') : events'[k].cb \notin PerKindCallbacks)]_vars

\* C10 witness: setValue found the property of an update element, met a
\* state attribute that is no state token and returned -1, with a mediator
\* attached.
C10_Witness ==
    /\ last.op = "setValue"
    /\ last.elem.state = "Bogus"
    /\ ret = Return(RET_ERR, "bogus state", NoProperty)
    /\ mediator
    /\ matchingAt(pAll, last.elem.name, INDI_NUMBER) # {}

\* the state and the timeout of every property of the list
statesAndTimeouts(props) ==
    [i \in 1..Len(props) |-> <<props[i].state, props[i].timeout>>]

\* C11: setValue changes the state of a property only when the update
\* element carries a valid state attribute: when the attribute is absent or
\* no state token, the state and the timeout of every property are after the
\* call what they were before it.
C11_StateKeptWithoutValidState ==
    [][(/\ last'.op = "setValue"
        /\ last'.elem.state \notin {"Idle", "Ok", "Busy", "Alert"})
       => statesAndTimeouts(pAll') = statesAndTimeouts(pAll)]_vars

\* the names the child elements of an element carry
childNames(root) == {root.children[c].name : c \in 1..Len(root.children)}

\* C12: no update element changes the number, the names or the order of the
\* members of a property; in a Number, Switch, Text or Light update a child
\* naming no member is ignored and every member no child names keeps its
\* value.
C12_UpdateKeepsMembersNotNamed ==
    [][(last'.op = "setValue")
       => (/\ Len(pAll') = Len(pAll)
           /\ \A i \in 1..Len(pAll) :
                 /\ Len(pAll'[i].widgets) = Len(pAll[i].widgets)
                 /\ \A k \in 1..Len(pAll[i].widgets) :
                       /\ pAll'[i].widgets[k].name = pAll[i].widgets[k].name
                       /\ (/\ last'.elem.tag \in {"setNumberVector", "setSwitchVector",
                                                   "setTextVector", "setLightVector"}
                           /\ pAll[i].widgets[k].name \notin childNames(last'.elem))
                          => pAll'[i].widgets[k] = pAll[i].widgets[k])]_vars

\* C12 witness: setValue applied a Number update one child of which names no
\* member of the property, and changed the member another child names.
C12_Witness ==
    /\ last.op = "setValue"
    /\ ret.code = RET_OK
    /\ \E i \in matchingAt(pAll, last.elem.name, INDI_NUMBER) :
          /\ \E n \in childNames(last.elem) : findWidgetByName(pAll[i].widgets, n) = 0
          /\ \E k \in 1..Len(pAll[i].widgets) :
                /\ pAll[i].widgets[k].name \in childNames(last.elem)
                /\ pAll[i].widgets[k].value = 9
          /\ \E k \in 1..Len(pAll[i].widgets) :
                /\ pAll[i].widgets[k].name \notin childNames(last.elem)
                /\ pAll[i].widgets[k].value = 5

\* C14: whenever a definition or an update element carries a message
\* attribute, exactly one entry is appended to the message log, whether the
\* element is processed or rejected.
C14_MessageAlwaysLogged ==
    [][(/\ last'.op \in {"buildProp", "setValue"}
        /\ last'.elem.message # NoAttr)
       => messageLog' = Append(messageLog, last'.elem.message)]_vars

(***************************************************************************)
(* Properties of BLOB updates.                                             *)
(***************************************************************************)
\* the positions of the per-kind notifications among the events of a call
perKindEventsOf(evs) == {k \in 1..Len(evs) : evs[k].cb \in PerKindCallbacks}

\* C13: for every accepted update element of any kind the per-kind mediator
\* callback is invoked exactly once per element, after the state, the
\* timeout and every member the element names are updated: the property it
\* is invoked with is the property as the call leaves it.
C13_OneCallbackAfterFullUpdate ==
    [][(/\ last'.op = "setValue"
        /\ ret'.code = RET_OK
        /\ mediator)
       => (/\ Cardinality(perKindEventsOf(events')) = 1
           /\ \A k \in perKindEventsOf(events') :
                 \E i \in 1..Len(pAll') :
                    /\ pAll'[i].name = last'.elem.name
                    /\ events'[k].prop = pAll'[i])]_vars

\* the bytes of the buffer a member holds
blobBytes(w, hp) == IF isLive(hp, w.blob) THEN hp[w.blob].bytes ELSE << >>

\* every property of the list with the bytes of its buffers in the place of
\* their addresses
contents(props, hp) ==
    [i \in 1..Len(props) |->
        [props[i] EXCEPT !.widgets =
            [k \in 1..Len(props[i].widgets) |->
                [props[i].widgets[k] EXCEPT !.blob = blobBytes(props[i].widgets[k], hp)]]]]

\* C15: applying the same update element twice in a row leaves every
\* property (state, timeout, the value, min and max of every member, for a
\* BLOB the bytes of the buffer, bloblen, size and format) as applying it
\* once left it.
C15_SecondApplicationChangesNothing ==
    [][(/\ last.op = "setValue"
        /\ last'.op = "setValue"
        /\ last'.elem = last.elem)
       => contents(pAll', heap') = contents(pAll, heap)]_vars

\* the members holding the buffer at an address
owners(props, a) ==
    {<<i, k>> \in (1..Len(props)) \X (1..2) :
        k <= Len(props[i].widgets) /\ props[i].widgets[k].blob = a}

liveBuffers(hp) == {a \in Addresses : isLive(hp, a)}

\* C16: across any sequence of BLOB updates a member owns at most one
\* buffer, every buffer is released by the routine that matches the way it
\* was obtained, no buffer is released twice and none is left without owner.
C16_BuffersOwnedAndReleasedOnce ==
    /\ heapFaults = {}
    /\ \A a \in liveBuffers(heap) : Cardinality(owners(pAll, a)) = 1
    /\ \A i \in 1..Len(pAll) : \A k \in 1..Len(pAll[i].widgets) :
          pAll[i].widgets[k].blob # NULL => isLive(heap, pAll[i].widgets[k].blob)

\* after the second of two direct attachments to one member: the member
\* holds the second attachment, bloblen is the second element's size, and
\* the first buffer went through one release
secondAttachmentInstalled(props, hp, faults, child) ==
    \A i \in 1..Len(props) : \A k \in 1..Len(props[i].widgets) :
       (props[i].widgets[k].name = child.name)
       => (/\ isLive(hp, props[i].widgets[k].blob)
           /\ hp[props[i].widgets[k].blob] =
                 [kind |-> "shared",
                  bytes |-> mapped(AttachedBlobs[child.attachedDataId], toInt(child.size))]
           /\ props[i].widgets[k].bloblen = toInt(child.size)
           /\ faults = {})

twoDirectAttachments ==
    /\ directAttachment(last.elem) /\ ret.code = RET_OK
    /\ directAttachment(last'.elem) /\ ret'.code = RET_OK
    /\ last'.elem.children[1].name = last.elem.children[1].name
    /\ heapFaults = {}

streamsOf(bytes) == {z \in DOMAIN ZlibStreams : ZlibStreams[z] = bytes}

\* a child element whose format ends in ".z" and whose size is not 0
compressedChild(child) ==
    /\ child.format # NoAttr
    /\ endsWithZ(child.format)
    /\ toInt(child.size) # 0

\* the member a compressed child names holds the bytes a zlib stream
\* inflates to (the stream of the attachment when the child attaches one),
\* its size is their number, its format is the child's without the trailing
\* ".z", and no buffer without owner holds the stream
inflatedChildApplied(props, hp, child) ==
    \A i \in 1..Len(props) : \A k \in 1..Len(props[i].widgets) :
       (props[i].widgets[k].name = child.name)
       => LET w == props[i].widgets[k]
              bytes == blobBytes(w, hp)
          IN  /\ streamsOf(bytes) # {}
              /\ (child.attachedDataId # NoAttr)
                 => \E z \in streamsOf(bytes) :
                       isPrefix(z, mapped(AttachedBlobs[child.attachedDataId],
                                          toInt(child.size)))
              /\ w.size = Len(bytes)
              /\ w.format = stripZ(child.format)
              /\ \A a \in liveBuffers(hp) :
                    (owners(props, a) = {})
                    => \A z \in streamsOf(bytes) : ~isPrefix(z, hp[a].bytes)

\* C18: for a oneBLOB child whose format ends in ".z" and whose payload
\* inflates, the member afterwards holds the inflated bytes, its size is the
\* inflated length, the compressed buffer has been released and the stored
\* format is the child's with the trailing ".z" removed.
C18_InflatedPayloadInstalled ==
    [][(/\ last'.op = "setValue"
        /\ last'.elem.tag = "setBLOBVector"
        /\ ret'.code = RET_OK)
       => \A c \in 1..Len(last'.elem.children) :
             compressedChild(last'.elem.children[c])
             => inflatedChildApplied(pAll', heap', last'.elem.children[c])]_vars

\* C18 witness: the compressed attachment z1 was inflated into the member a.
C18_Witness ==
    /\ last.op = "setValue"
    /\ ret.code = RET_OK
    /\ Len(last.elem.children) = 1
    /\ last.elem.children[1].attachedDataId = "z1"
    /\ \E i \in 1..Len(pAll) : \E k \in 1..Len(pAll[i].widgets) :
          /\ pAll[i].widgets[k].name = "a"
          /\ blobBytes(pAll[i].widgets[k], heap) = <<65, 66, 67, 68>>
          /\ pAll[i].widgets[k].size = 4
          /\ pAll[i].widgets[k].format = ".fits"
    /\ Cardinality(liveBuffers(heap)) = 1

\* the member a child attaches a buffer to holds that buffer
attachmentApplied(props, hp, child) ==
    \A i \in 1..Len(props) : \A k \in 1..Len(props[i].widgets) :
       (props[i].widgets[k].name = child.name)
       => blobBytes(props[i].widgets[k], hp) =
             mapped(AttachedBlobs[child.attachedDataId], toInt(child.size))

\* the stored format of the member a child names is what it was
formatKept(before, after, child) ==
    \A i \in 1..Len(before) : \A k \in 1..Len(before[i].widgets) :
       (before[i].widgets[k].name = child.name)
       => after[i].widgets[k].format = before[i].widgets[k].format

\* C19: when the inflation of one oneBLOB child fails, the failure is
\* reported with the zlib code for that BLOB only: the other oneBLOB
\* children of the element are applied and notified, and the stored format
\* of the failing member is not stripped of its ".z".
C19_InflateFailureIsLocal ==
    [][(/\ last'.op = "setValue"
        /\ Len(last'.elem.children) > 1
        /\ ret'.errmsg \in {compressionError(Z_DATA_ERROR), compressionError(Z_BUF_ERROR)})
       => (/\ \A c \in 1..Len(last'.elem.children) :
                 IF compressedChild(last'.elem.children[c])
                 THEN formatKept(pAll, pAll', last'.elem.children[c])
                 ELSE attachmentApplied(pAll', heap', last'.elem.children[c])
           /\ mediator
              => Cardinality(perKindEventsOf(events')) =
                    Cardinality({c \in 1..Len(last'.elem.children) :
                                   ~compressedChild(last'.elem.children[c])}))]_vars

(***************************************************************************)
(* Properties of concurrent calls.                                         *)
(***************************************************************************)
\* the steps that read or write the property list
listAccess == {"push_back", "scan"}

\* C20: with the threads of Adders each adding a property of its own name
\* through addProperty while the threads of Getters call getProperty, no
\* thread reads or writes the list without holding m_Lock, some thread can
\* take a step as long as one has not returned, and when all have returned
\* the list holds exactly one property per adding thread, each of them found
\* by getProperty.
C20_ConcurrentAddsAllListed ==
    /\ \A t \in Threads : (\E step \in listAccess : at(t, step)) => m_Lock = t
    /\ (\E t \in Threads : ~returned(t)) => ENABLED NextThreads
    /\ (\A t \in Threads : returned(t))
       => (/\ Len(pAll) = Cardinality(Adders)
           /\ \A t \in Adders :
                 /\ Cardinality(namedAt(pAll, AdderProperty[t].name)) = 1
                 /\ getProperty(pAll, AdderProperty[t].name, INDI_UNKNOWN) # 0
                 /\ pAll[getProperty(pAll, AdderProperty[t].name, INDI_UNKNOWN)]
                       = AdderProperty[t])
    /\ \A t \in Getters :
          found[t] # 0 => pAll[found[t]].name = GetterName[t]

\* C20 witness: every thread has returned, one getProperty ran after the
\* property it looks up was added and found it, the other ran before and
\* found none.
C20_Witness ==
    /\ \A t \in Threads : returned(t)
    /\ Len(pAll) = 2
    /\ found["get1"] # 0
    /\ found["get2"] = 0

(***************************************************************************)
(* Properties of whole calls racing on one name.                           *)
(***************************************************************************)
\* C21: with a thread in registerProperty and a thread in buildProp for the
\* same property name (and others removing and reading), the list never
\* holds more than one property of a name.
C21_OneEntryOfANameUnderRaces ==
    \A name \in Names : Cardinality(namedAt(pAll, name)) <= 1

\* C22: every watch callback and every newProperty notification of a
\* property just added starts while that property is in the list, whatever
\* a thread in removeProperty does meanwhile.
C22_CallbackStartsWithPropertyListed ==
    \A k \in 1..Len(events) :
       events[k].cb \in {"watch", "newProperty"} => events[k].listed

\* the steps that go through the property list
scanSteps == {"scan", "read"}

\* C23: a thread that takes a step going through the property list, in
\* getProperty, getPropertyState, getPropertyPermission or getProperties,
\* holds m_Lock while it does.
C23_EveryScanHoldsTheLock ==
    [][\A t \in CallThreads :
          (pc'[t] # pc[t] /\ steps(t)[pc[t]] \in scanSteps) => m_Lock = t]_vars

(***************************************************************************)
(* Properties of the message log and of callbacks.                         *)
(***************************************************************************)
\* C24: with addMessage called by several threads, each newMessage
\* notification carries the index at which the message of that very call
\* stands in the log, and no two notifications carry the same index.
C24_NotifiedIndexIsOwnMessage ==
    [][\A t \in CallbackThreads :
          (pc'[t] # pc[t] /\ steps(t)[pc[t]] = "newMessage" /\ mediator)
          => LET notified == SelectSeq(events', LAMBDA e : e.cb = "newMessage")
                 idx == notified[Len(notified)].idx
             IN  /\ idx + 1 \in 1..Len(messageLog)
                 /\ messageLog[idx + 1] = doMessage(request(t).elem)
                 /\ \A k \in 1..(Len(notified) - 1) : notified[k].idx # idx]_vars

\* the steps at which a callback is invoked
callbackSteps == {"watch", "newProperty", "newMessage"} \cup PerKindCallbacks

\* C30: a thread about to invoke a watch callback or a callback of the
\* mediator does not hold m_Lock, no thread waits for the lock while
\* holding it, and with callbacks that call getProperty of the device some
\* thread can always take a step until all have returned.
C30_CallbacksRunWithoutTheLock ==
    /\ \A t \in CallbackThreads :
          /\ (\E cb \in callbackSteps : at(t, cb)) => m_Lock # t
          /\ at(t, "lock") => m_Lock # t
    /\ (\E t \in CallbackThreads : ~returned(t)) => ENABLED NextCallbacks

\* C30 witness: both threads have returned and every kind of callback was
\* invoked, each calling getProperty.
C30_Witness ==
    /\ \A t \in CallbackThreads : returned(t)
    /\ callbackSteps \subseteq {events[k].cb : k \in 1..Len(events)}

(***************************************************************************)
(* Properties of definitions.                                              *)
(***************************************************************************)
DefTags ==
    {"defNumberVector", "defSwitchVector", "defTextVector", "defLightVector",
     "defBLOBVector"}

\* the children of a definition that become members: those of the tag of
\* the definition's kind that carry a name
memberChildren(root) ==
    SelectSeq(root.children,
              LAMBDA c : /\ c.tag = defChildTag[defTagTypeName[root.tag]]
                         /\ c.name # NoAttr
                         /\ c.name # "")

\* a definition lacking device or name, of a tag that is no definition
\* tag, or without a child that becomes a member
turnedDown(root) ==
    \/ root.device = NoAttr
    \/ root.name = NoAttr
    \/ root.tag \notin DefTags
    \/ memberChildren(root) = << >>

\* C25: buildProp of a definition element that lacks device or name, whose
\* tag is no definition tag, or that yields no member adds no property and
\* invokes no watch callback and no callback of the mediator.
C25_RejectedDefinitionAddsNothing ==
    [][(last'.op = "buildProp" /\ turnedDown(last'.elem))
       => (/\ pAll' = pAll
           /\ events' = << >>
           /\ watchFired' = watchFired)]_vars

\* C25 witness: a definition without a child that carries a name was turned
\* down while a watch callback for its name and the mediator were installed.
C25_Witness ==
    /\ last.op = "buildProp"
    /\ crackDN(last.elem)
    /\ last.elem.tag \in DefTags
    /\ last.elem.children # << >>
    /\ turnedDown(last.elem)
    /\ toString(last.elem.name) \in watchPropertyMap
    /\ mediator
    /\ ret.code = RET_OK
    /\ events = << >>

\* the names of the members of a property, in order
memberNames(p) == [k \in 1..Len(p.widgets) |-> p.widgets[k].name]

\* C26: a property buildProp adds has one member for each child of the tag
\* of its kind that carries a non-empty name, in the order of the element,
\* each filled from that child, and no member with an empty name; this for
\* all five kinds.
C26_MembersAreTheNamedChildren ==
    [][(last'.op = "buildProp" /\ Len(pAll') = Len(pAll) + 1)
       => LET p == pAll'[Len(pAll')]
              kept == memberChildren(last'.elem)
          IN  /\ Len(p.widgets) = Len(kept)
              /\ \A k \in 1..Len(kept) :
                    /\ p.widgets[k].name = kept[k].name
                    /\ p.widgets[k] = defWidget(p.type, kept[k])
              /\ \A k \in 1..Len(p.widgets) : p.widgets[k].name # ""]_vars

\* C26 witness: a Light property was added from a definition with five
\* children, of which the two that carry a name and the tag defLight became
\* its members, in order.
C26_Witness ==
    /\ last.op = "buildProp"
    /\ last.elem.tag = "defLightVector"
    /\ Len(last.elem.children) = 5
    /\ pAll # << >>
    /\ pAll[Len(pAll)].name = toString(last.elem.name)
    /\ pAll[Len(pAll)].type = INDI_LIGHT
    /\ memberNames(pAll[Len(pAll)]) = <<"m1", "m2">>

(***************************************************************************)
(* Properties of the oneBLOB children of a BLOB update.                    *)
(***************************************************************************)
\* the position in the list of the BLOB property an update element names
blobProperty(props, root) == getProperty(props, toString(root.name), INDI_BLOB)

\* setValue was called with a BLOB update whose children all carry name,
\* format and size, for a BLOB property of the list, with state text that
\* converts
blobUpdate(props, call) ==
    /\ call.op = "setValue"
    /\ call.elem.tag = "setBLOBVector"
    /\ blobProperty(props, call.elem) # 0
    /\ toIPStateOk(call.elem.state)
    /\ \A k \in 1..Len(call.elem.children) :
          /\ call.elem.children[k].name # NoAttr
          /\ call.elem.children[k].format # NoAttr
          /\ call.elem.children[k].size # NoAttr

\* the position of the member a child names in a property, 0 for none
memberOf(p, child) == findWidgetByName(p.widgets, toString(child.name))

\* the positions in a sequence of events of the newBLOB calls made with the
\* member of that name
newBLOBsOf(evs, name) ==
    {k \in 1..Len(evs) : evs[k].cb = "newBLOB" /\ evs[k].widget = name}

\* a child that carries its payload as text, not compressed
inlineChild(child) ==
    /\ child.attachedDataId = NoAttr
    /\ toInt(child.size) # 0
    /\ ~endsWithZ(child.format)

\* C27: after an update with one inline oneBLOB child that names a member,
\* the member's buffer holds the base64 decoding of that child's own text,
\* bloblen is the length of the decoding, and bloblen does not exceed the
\* 3*n/4 bytes allocated for a text of n characters.
C27_InlineBytesAreChildsText ==
    [][(/\ blobUpdate(pAll, last')
        /\ Len(last'.elem.children) = 1
        /\ inlineChild(last'.elem.children[1])
        /\ memberOf(pAll[blobProperty(pAll, last'.elem)], last'.elem.children[1]) # 0
        /\ ret'.code = RET_OK)
       => LET child == last'.elem.children[1]
              p == pAll'[blobProperty(pAll, last'.elem)]
              m == p.widgets[memberOf(p, child)]
          IN  /\ blobBytes(m, heap') = Base64Texts[child.context]
              /\ m.bloblen = Len(Base64Texts[child.context])
              /\ m.bloblen <= (3 * TextSize[child.context]) \div 4]_vars

\* C28: an update with a oneBLOB child that names no member of the property
\* ends with 0, hands no absent member to the mediator, leaves the members
\* no child names as they were, and notifies the mediator once for every
\* child that does name a member.
C28_ChildNamingNoMemberIgnored ==
    [][(/\ blobUpdate(pAll, last')
        /\ \E k \in 1..Len(last'.elem.children) :
              memberOf(pAll[blobProperty(pAll, last'.elem)], last'.elem.children[k]) = 0)
       => LET i == blobProperty(pAll, last'.elem)
              children == last'.elem.children
              naming == {k \in 1..Len(children) : memberOf(pAll[i], children[k]) # 0}
          IN  /\ ret'.code = RET_OK
              /\ newBLOBsOf(events', NullWidget) = {}
              /\ \A w \in 1..Len(pAll[i].widgets) :
                    (\A k \in naming : memberOf(pAll[i], children[k]) # w)
                    => pAll'[i].widgets[w] = pAll[i].widgets[w]
              /\ mediator =>
                    Cardinality({k \in 1..Len(events') : events'[k].cb = "newBLOB"})
                       = Cardinality(naming)]_vars

\* the first child of an update has size 0 and names a member no other
\* child names
zeroSizeFirst(props, call) ==
    /\ blobUpdate(props, call)
    /\ toInt(call.elem.children[1].size) = 0
    /\ memberOf(props[blobProperty(props, call.elem)], call.elem.children[1]) # 0
    /\ \A k \in 2..Len(call.elem.children) :
          call.elem.children[k].name # call.elem.children[1].name

\* C29: a oneBLOB child of size 0 leaves the buffer, bloblen, size and
\* format of the member it names as they were, newBLOB is invoked once for
\* that member when a mediator is attached, and the child after it is then
\* processed: its attachment is installed and notified.
C29_ZeroSizeChildOnlyNotifies ==
    [][zeroSizeFirst(pAll, last')
       => LET i == blobProperty(pAll, last'.elem)
              children == last'.elem.children
              w == memberOf(pAll[i], children[1])
              before == pAll[i].widgets[w]
              after == pAll'[i].widgets[w]
          IN  /\ after.blob = before.blob
              /\ blobBytes(after, heap') = blobBytes(before, heap)
              /\ after.bloblen = before.bloblen
              /\ after.size = before.size
              /\ after.format = before.format
              /\ Cardinality(newBLOBsOf(events', before.name)) = IF mediator THEN 1 ELSE 0
              /\ Len(children) > 1 =>
                    /\ ret'.code = RET_OK
                    /\ attachmentApplied(pAll', heap', children[2])
                    /\ mediator =>
                          /\ events'[1].widget = before.name
                          /\ events'[2].cb = "newBLOB"
                          /\ events'[2].widget = children[2].name]_vars

\* C29 witness: an update whose first child has size 0 and names a member
\* that holds a buffer, followed by a child attaching a buffer to another
\* member, was applied with the mediator notified of both.
C29_Witness ==
    /\ last.op = "setValue"
    /\ last.elem.tag = "setBLOBVector"
    /\ Len(last.elem.children) = 2
    /\ toInt(last.elem.children[1].size) = 0
    /\ ret.code = RET_OK
    /\ mediator
    /\ Len(events) = 2
    /\ events[1].widget = last.elem.children[1].name
    /\ events[2].widget = last.elem.children[2].name
    /\ \E i \in 1..Len(pAll) : \E w \in 1..Len(pAll[i].widgets) :
          /\ pAll[i].widgets[w].name = last.elem.children[1].name
          /\ pAll[i].widgets[w].blob # NULL
          /\ pAll[i].widgets[w].bloblen > 0

\* C31: after a BLOB update that was applied with 0 and whose children all
\* name a member and carry a payload, bloblen of every member named is the
\* number of bytes of the buffer that member holds, also when the payload
\* was inflated into a new buffer.
C31_BlobLenIsBufferLength ==
    [][(/\ blobUpdate(pAll, last')
        /\ ret'.code = RET_OK
        /\ \A k \in 1..Len(last'.elem.children) :
              /\ toInt(last'.elem.children[k].size) # 0
              /\ memberOf(pAll[blobProperty(pAll, last'.elem)], last'.elem.children[k]) # 0)
       => LET p == pAll'[blobProperty(pAll, last'.elem)]
          IN  \A k \in 1..Len(last'.elem.children) :
                 LET m == p.widgets[memberOf(p, last'.elem.children[k])]
                 IN  m.bloblen = Len(blobBytes(m, heap'))]_vars

\* C32: a call of buildProp that adds no property to the list leaves the
\* device name as it was.
C32_RejectedDefinitionKeepsDeviceName ==
    [][(last'.op = "buildProp" /\ Len(pAll') = Len(pAll)) => deviceName' = deviceName]_vars

(***************************************************************************)
(* class Angle (scopesim_helper.h).  Its values are doubles.  A double is  *)
(* modelled as a binary floating-point number of MantissaBits significant  *)
(* bits, counted in units of 2^-FractionBits, and every arithmetic         *)
(* operation rounds its exact result to the nearest such number, ties to   *)
(* the even one, as IEEE 754 arithmetic does.                              *)
(***************************************************************************)
FractionBits == 2
MantissaBits == 6

Unit == 2^FractionBits

abs(n) == IF n < 0 THEN -n ELSE n

RECURSIVE bits(_)
bits(n) == IF n = 0 THEN 0 ELSE 1 + bits(n \div 2)

\* the distance between neighbouring doubles at the magnitude n
ulp(n) == IF bits(n) <= MantissaBits THEN 1 ELSE 2^(bits(n) - MantissaBits)

\* the multiple of q nearest to num/den (both positive), the even one on a tie
nearest(num, den, q) ==
    LET lo    == (num \div (den * q)) * q
        twice == 2 * (num - lo * den)
    IN  IF twice < q * den THEN lo
        ELSE IF twice > q * den THEN lo + q
        ELSE IF (lo \div q) % 2 = 0 THEN lo ELSE lo + q

\* the double an operation with the exact result num/den stores
double(num, den) ==
    LET r == nearest(abs(num), den, ulp(abs(num) \div den))
    IN  IF num < 0 THEN -r ELSE r

\* a whole number of degrees or hours, in units
degrees(d) == d * Unit

\* Angle::range
RECURSIVE range(_)
range(deg) ==
    IF deg >= degrees(180) THEN range(double(deg - degrees(360), 1))
    ELSE IF deg < degrees(-180) THEN range(double(deg + degrees(360), 1))
    ELSE deg

\* Angle::hrstoDeg
hrstoDeg(hrs) == range(double(hrs * 15, 1))

\* Angle::Degrees360
Degrees360(a) == IF a >= 0 THEN a ELSE double(degrees(360) + a, 1)

\* Angle::Hours
Hours(a) ==
    LET h == double(a, 15)
    IN  IF h < 0 THEN double(degrees(24) + h, 1) ELSE h

\* Angle::difference
difference(this, a) == range(double(this - a, 1))

\* Angle::operator > and the other relational operators
greater(this, a) == difference(this, a) > 0
less(this, a) == difference(this, a) < 0
greaterOrEqual(this, a) == difference(this, a) >= 0
lessOrEqual(this, a) == difference(this, a) <= 0

\* the doubles the operations are called with: nothing, the smallest amounts
\* either way, a quarter of an hour, and whole degrees up to turns and a half
DegreeInputs ==
    {double(n, 1) : n \in {0, 1, -1, 15, -15}
                           \cup {degrees(d) : d \in {45, 90, -90, 176, 180, -180, 360,
                                                     -360, 540, -540}}}

\* the hours setHours is called with and the factors operator * is called
\* with, small enough for every product to stay within a few turns
HourInputs ==
    {double(n, 1) : n \in {0, 1, -1} \cup {degrees(h) : h \in {6, 12, -12, 24, 36, -36}}}

DurationInputs == {double(n, 1) : n \in {0, 1, -1} \cup {degrees(f) : f \in {1, -1, 2, 3, -3}}}

Applied(op, arg, value) == [op |-> op, arg |-> arg, value |-> value]

\* an operation of an Angle leaves the device alone
device == <<pAll, deviceName, watchPropertyMap, mediator, messageLog, watchFired,
            last, ret, events, toIPStateFailure, heap, heapFaults,
            attachedBefore, m_Lock, pc, found>>

Store(op, arg, value) ==
    /\ angle' = value
    /\ compared' = Applied(op, arg, value)
    /\ UNCHANGED <<device, pmc8Vars, imagerVars, rotatorVars>>

\* Angle::Angle(double degrees)
AngleOfDegrees(deg) == Store("Angle", deg, range(deg))

\* Angle::setDegrees
SetDegrees(deg) == Store("setDegrees", deg, range(deg))

\* Angle::setHours
SetHours(hrs) == Store("setHours", hrs, hrstoDeg(hrs))

\* Angle::operator - ()
Negate == Store("-", 0, range(-angle))

\* Angle::operator += (const Angle&) and (const double)
PlusAssign(a) == Store("+=", a, range(double(angle + a, 1)))

\* Angle::operator -= (const Angle&) and (const double)
MinusAssign(a) == Store("-=", a, range(double(angle - a, 1)))

\* Angle::operator + (const Angle&) and (const double&), the sum kept
Plus(a) == Store("+", a, range(double(angle + a, 1)))

\* Angle::operator - (const Angle&) and (const double&), the remainder kept
Minus(a) == Store("-", a, range(double(angle - a, 1)))

\* Angle::operator *, the product kept
Times(duration) == Store("*", duration, range(double(angle * duration, Unit)))

\* the relational operators applied to the angle and another one, both ways
Compare(a) ==
    /\ compared' = Applied("compare", a,
                           [less |-> less(angle, a), greater |-> greater(angle, a),
                            lessOrEqual |-> lessOrEqual(angle, a),
                            greaterOrEqual |-> greaterOrEqual(angle, a),
                            lessSwapped |-> less(a, angle),
                            greaterSwapped |-> greater(a, angle)])
    /\ UNCHANGED <<angle, device, pmc8Vars, imagerVars, rotatorVars>>

NextAngle ==
    \/ \E deg \in DegreeInputs : AngleOfDegrees(deg)
    \/ \E deg \in DegreeInputs : SetDegrees(deg)
    \/ \E hrs \in HourInputs : SetHours(hrs)
    \/ Negate
    \/ \E d \in DegreeInputs : PlusAssign(range(d))
    \/ \E d \in DegreeInputs : PlusAssign(d)
    \/ \E d \in DegreeInputs : MinusAssign(range(d))
    \/ \E d \in DegreeInputs : MinusAssign(d)
    \/ \E d \in DegreeInputs : Plus(range(d))
    \/ \E d \in DegreeInputs : Plus(d)
    \/ \E d \in DegreeInputs : Minus(range(d))
    \/ \E d \in DegreeInputs : Minus(d)
    \/ \E duration \in DurationInputs : Times(duration)
    \/ \E d \in DegreeInputs : Compare(range(d))

\* the device as constructed and never used
DeviceIdle == InitBaseDevice /\ deviceName = "" /\ toIPStateFailure = "IPS_IDLE"

\* everything as constructed and the device never used
InitHelpers == DeviceIdle /\ AngleIdle /\ PMC8Idle /\ ImagerIdle /\ RotatorIdle

SpecAngle == InitHelpers /\ [][NextAngle]_vars

\* the stored angle is in [-180, 180)
angleInRange == degrees(-180) <= angle /\ angle < degrees(180)

\* C33: the stored angle is in [-180, 180) degrees after construction and
\* after every operation, and so Degrees360 is in [0, 360) and Hours in
\* [0, 24).
C33_AngleAndAccessorsInRange ==
    /\ angleInRange
    /\ 0 <= Degrees360(angle) /\ Degrees360(angle) < degrees(360)
    /\ 0 <= Hours(angle) /\ Hours(angle) < degrees(24)

\* C34: of two angles never both a < b and b < a, and a > b exactly when
\* b < a.
C34_RelationalOperatorsConsistent ==
    compared.op = "compare" =>
        /\ ~(compared.value.less /\ compared.value.lessSwapped)
        /\ compared.value.greater = compared.value.lessSwapped

(***************************************************************************)
(* The PMC8 mount driver: pulse guiding.  IEAddTimer and IERmTimer are the *)
(* event loop's: a timer added is pending until it fires, once, or is      *)
(* removed; the ids handed out are positive and never repeat.              *)
(***************************************************************************)
MaxTimers == 4

\* the lengths of pulse asked for, in milliseconds
PulseLengths == {20, 500}

IEAddTimer(pending, id, dir) == pending \cup {[id |-> id, dir |-> dir]}

IERmTimer(pending, id) == {tm \in pending : tm.id # id}

axisOf(dir) == IF dir \in {"PMC8_N", "PMC8_S"} THEN "NS" ELSE "WE"

\* the guide timers of an axis that are pending
pendingOn(pending, axis) == {tm \in pending : axisOf(tm.dir) = axis}

Called(op, arg, result) ==
    [op |-> op, arg |-> arg, ret |-> result, back |-> 0, command |-> "none"]

\* GuiderInterface::processGuiderProperties stores the state the Guide
\* function returned as the state of the guide property
processGuiderProperties(state) == state

\* an operation of the PMC8 leaves the device and the other classes alone
besidesPMC8 == <<device, angleVars, imagerVars, rotatorVars>>

\* PMC8::GuideNorth and PMC8::GuideSouth
guideNS(op, dir, ms) ==
    /\ nextTimer <= MaxTimers
    /\ LET tracking == TrackState = "SCOPE_TRACKING"
           state    == IF tracking THEN "IPS_BUSY" ELSE "IPS_IDLE"
           kept     == IF tracking /\ GuideNSTID # 0
                       THEN IERmTimer(timers, GuideNSTID) ELSE timers
       IN  /\ isPulsingNS' = IF tracking THEN TRUE ELSE isPulsingNS
           /\ timers' = IEAddTimer(kept, nextTimer, dir)
           /\ GuideNSTID' = nextTimer
           /\ GuideNSNP' = processGuiderProperties(state)
           /\ called' = Called(op, ms, state)
    /\ nextTimer' = nextTimer + 1
    /\ UNCHANGED <<TrackState, GuideWENP, GuideWETID, isPulsingWE, besidesPMC8>>

GuideNorth(ms) == guideNS("GuideNorth", "PMC8_N", ms)

GuideSouth(ms) == guideNS("GuideSouth", "PMC8_S", ms)

\* PMC8::GuideEast and PMC8::GuideWest
guideWE(op, dir, ms) ==
    /\ nextTimer <= MaxTimers
    /\ LET tracking == TrackState = "SCOPE_TRACKING"
           state    == IF tracking THEN "IPS_BUSY" ELSE "IPS_IDLE"
           kept     == IF tracking /\ GuideWETID # 0
                       THEN IERmTimer(timers, GuideWETID) ELSE timers
       IN  /\ isPulsingWE' = IF tracking THEN TRUE ELSE isPulsingWE
           /\ timers' = IEAddTimer(kept, nextTimer, dir)
           /\ GuideWETID' = nextTimer
           /\ GuideWENP' = processGuiderProperties(state)
           /\ called' = Called(op, ms, state)
    /\ nextTimer' = nextTimer + 1
    /\ UNCHANGED <<TrackState, GuideNSNP, GuideNSTID, isPulsingNS, besidesPMC8>>

GuideEast(ms) == guideWE("GuideEast", "PMC8_E", ms)

GuideWest(ms) == guideWE("GuideWest", "PMC8_W", ms)

\* PMC8::guideTimeout, called by the event loop when the timer tm fires
guideTimeout(tm) ==
    /\ tm \in timers
    /\ timers' = timers \ {tm}
    /\ IF axisOf(tm.dir) = "NS"
       THEN /\ isPulsingNS' = FALSE
            /\ GuideNSNP' = "IPS_IDLE"
            /\ GuideNSTID' = 0
            /\ UNCHANGED <<isPulsingWE, GuideWENP, GuideWETID>>
       ELSE /\ isPulsingWE' = FALSE
            /\ GuideWENP' = "IPS_IDLE"
            /\ GuideWETID' = 0
            /\ UNCHANGED <<isPulsingNS, GuideNSNP, GuideNSTID>>
    /\ called' = Called("guideTimeout", tm.id, tm.dir)
    /\ UNCHANGED <<TrackState, nextTimer, besidesPMC8>>

\* PMC8::Abort
Abort ==
    /\ IF GuideNSNP = "IPS_BUSY" \/ GuideWENP = "IPS_BUSY"
       THEN LET afterNS == IF GuideNSTID # 0 THEN IERmTimer(timers, GuideNSTID) ELSE timers
                afterWE == IF GuideWETID # 0 THEN IERmTimer(afterNS, GuideWETID) ELSE afterNS
            IN  /\ GuideNSNP' = "IPS_IDLE"
                /\ GuideWENP' = "IPS_IDLE"
                /\ timers' = afterWE
                /\ GuideNSTID' = IF GuideNSTID # 0 \/ GuideWETID # 0 THEN 0 ELSE GuideNSTID
                /\ UNCHANGED GuideWETID
                /\ called' = Called("Abort", 0, "Guide aborted.")
       ELSE /\ UNCHANGED <<GuideNSNP, GuideWENP, timers, GuideNSTID, GuideWETID>>
            /\ called' = Called("Abort", 0, "abort_pmc8")
    /\ UNCHANGED <<TrackState, isPulsingNS, isPulsingWE, nextTimer, besidesPMC8>>

\* what the mount reports of its tracking when it is asked
MountReports == {"tracking", "stopped", "unchanged"}

\* PMC8::ReadScopeStatus, as far as it bears on guiding
ReadScopeStatus(report) ==
    /\ IF isPulsingNS \/ isPulsingWE
       THEN /\ called' = Called("ReadScopeStatus", 0, "skipped")
            /\ UNCHANGED TrackState
       ELSE /\ called' = Called("ReadScopeStatus", 0, "queried")
            /\ TrackState' = IF TrackState = "SCOPE_IDLE" /\ report = "tracking"
                             THEN "SCOPE_TRACKING"
                             ELSE IF TrackState = "SCOPE_TRACKING" /\ report = "stopped"
                                  THEN "SCOPE_IDLE" ELSE TrackState
    /\ UNCHANGED <<GuideNSNP, GuideWENP, GuideNSTID, GuideWETID, isPulsingNS, isPulsingWE,
                   timers, nextTimer, besidesPMC8>>

NextPMC8 ==
    \/ \E ms \in PulseLengths : GuideNorth(ms)
    \/ \E ms \in PulseLengths : GuideSouth(ms)
    \/ \E ms \in PulseLengths : GuideEast(ms)
    \/ \E ms \in PulseLengths : GuideWest(ms)
    \/ \E tm \in timers : guideTimeout(tm)
    \/ Abort
    \/ \E report \in MountReports : ReadScopeStatus(report)

SpecPMC8 == InitHelpers /\ [][NextPMC8]_vars

\* C35: at most one guide timer is pending for each axis, the stored id of
\* an axis is non-zero exactly when a timer of that axis is pending, and
\* both ids are 0 when Abort has cancelled guiding.
C35_OneGuideTimerPerAxis ==
    /\ Cardinality(pendingOn(timers, "NS")) <= 1
    /\ Cardinality(pendingOn(timers, "WE")) <= 1
    /\ (GuideNSTID # 0) <=> (pendingOn(timers, "NS") # {})
    /\ (GuideWETID # 0) <=> (pendingOn(timers, "WE") # {})
    /\ (called.op = "Abort" /\ called.ret = "Guide aborted.")
           => (GuideNSTID = 0 /\ GuideWETID = 0)

\* C36: whenever isPulsingNS or isPulsingWE is set a guide timer of that
\* axis is pending, so that the flag is cleared when it fires.
C36_PulsingHasTimerPending ==
    /\ isPulsingNS => pendingOn(timers, "NS") # {}
    /\ isPulsingWE => pendingOn(timers, "WE") # {}

(***************************************************************************)
(* The PMC8 mount driver: track modes.  The values of the two enumerations *)
(* are those of their declarations, INDI::Telescope::TelescopeTrackMode    *)
(* and PMC8_TRACK_RATE.                                                    *)
(***************************************************************************)
TRACK_SIDEREAL == 0
TRACK_SOLAR == 1
TRACK_LUNAR == 2
TRACK_CUSTOM == 3

PMC8_TRACK_SIDEREAL == 0
PMC8_TRACK_LUNAR == 1
PMC8_TRACK_SOLAR == 2
PMC8_TRACK_CUSTOM == 3
PMC8_TRACK_UNDEFINED == 4

\* the values of a uint8_t
MaxMode == 255

\* PMC8::convertToPMC8TrackMode
convertToPMC8TrackMode(mode) ==
    CASE mode = TRACK_SIDEREAL -> PMC8_TRACK_SIDEREAL
      [] mode = TRACK_LUNAR -> PMC8_TRACK_LUNAR
      [] mode = TRACK_SOLAR -> PMC8_TRACK_SOLAR
      [] mode = TRACK_CUSTOM -> PMC8_TRACK_CUSTOM
      [] OTHER -> PMC8_TRACK_UNDEFINED

\* a conversion back that takes every mode it does not know for sidereal
convertFromPMC8TrackModeDefaultSidereal(mode) ==
    CASE mode = PMC8_TRACK_LUNAR -> TRACK_LUNAR
      [] mode = PMC8_TRACK_SOLAR -> TRACK_SOLAR
      [] OTHER -> TRACK_SIDEREAL

\* PMC8::convertFromPMC8TrackMode
convertFromPMC8TrackMode(mode) ==
    CASE mode = PMC8_TRACK_SIDEREAL -> TRACK_SIDEREAL
      [] mode = PMC8_TRACK_LUNAR -> TRACK_LUNAR
      [] mode = PMC8_TRACK_SOLAR -> TRACK_SOLAR
      [] OTHER -> TRACK_CUSTOM

\* the conversion there and back, as ReadScopeStatus and SetTrackMode use it
ConvertTrackMode(mode) ==
    /\ called' = [Called("convertTrackMode", mode, convertToPMC8TrackMode(mode))
                    EXCEPT !.back = convertFromPMC8TrackMode(convertToPMC8TrackMode(mode)),
                           !.command = "none"]
    /\ UNCHANGED <<TrackState, GuideNSNP, GuideWENP, GuideNSTID, GuideWETID, isPulsingNS,
                   isPulsingWE, timers, nextTimer, besidesPMC8>>

\* PMC8::SetTrackMode; sent tells whether the mount took the command
SetTrackMode(mode, sent) ==
    /\ LET pmc8_mode == convertToPMC8TrackMode(mode)
       IN  called' =
             [Called("SetTrackMode", mode,
                     IF pmc8_mode = PMC8_TRACK_UNDEFINED THEN FALSE ELSE sent)
                EXCEPT !.back = pmc8_mode,
                       !.command = IF pmc8_mode = PMC8_TRACK_UNDEFINED THEN "none"
                                   ELSE IF pmc8_mode = PMC8_TRACK_CUSTOM
                                        THEN "set_pmc8_ra_tracking"
                                        ELSE "set_pmc8_track_mode"]
    /\ UNCHANGED <<TrackState, GuideNSNP, GuideWENP, GuideNSTID, GuideWETID, isPulsingNS,
                   isPulsingWE, timers, nextTimer, besidesPMC8>>

NextTrackMode ==
    \/ \E mode \in 0..MaxMode : ConvertTrackMode(mode)
    \/ \E mode \in 0..MaxMode, sent \in BOOLEAN : SetTrackMode(mode, sent)

SpecTrackMode == InitHelpers /\ [][NextTrackMode]_vars

TrackModes == {TRACK_SIDEREAL, TRACK_SOLAR, TRACK_LUNAR, TRACK_CUSTOM}

\* C40: a track mode of sidereal, solar, lunar or custom converted to the
\* PMC8's and back is itself; every other mode converts to
\* PMC8_TRACK_UNDEFINED, and SetTrackMode of it returns false and sends no
\* command.
C40_TrackModeRoundTrip ==
    /\ (called.op = "convertTrackMode" /\ called.arg \in TrackModes)
           => called.back = called.arg
    /\ (called.op = "convertTrackMode" /\ called.arg \notin TrackModes)
           => called.ret = PMC8_TRACK_UNDEFINED
    /\ (called.op = "SetTrackMode" /\ called.arg \notin TrackModes)
           => (called.ret = FALSE /\ called.command = "none")

C40_Witness ==
    /\ called.op = "convertTrackMode"
    /\ called.arg = TRACK_CUSTOM
    /\ called.ret = PMC8_TRACK_CUSTOM
    /\ called.back = TRACK_CUSTOM

(***************************************************************************)
(* The imager agent (class Imager).  The settings of a group, the number   *)
(* of images it counts and the filter slot it asks for, are kept by class  *)
(* Group and changed by the client at any time: whenever the agent reads   *)
(* them they are any of the values a group can be set to.                  *)
(***************************************************************************)
MAX_GROUP_COUNT == 3

MaxImageCount == 2

\* the counters are not followed beyond this
MaxCounter == 4

\* what a group is set to when the agent reads it: Group::count,
\* Group::filterSlot, and whether the wheel is at that slot already
GroupSettings == [count : 1..MaxImageCount, filterSlot : {0, 1}, atSlot : BOOLEAN]

\* the empty pointer getGroup returns
EmptyGroup == -1

\* Imager::getGroup: the index of the group returned
getGroup(index, max) == IF index > -1 /\ index <= max THEN index ELSE EmptyGroup

\* Imager::currentGroup
currentGroup(g, max) == getGroup(g - 1, max)

\* Imager::nextGroup
nextGroup(g, max) == getGroup(g, max)

\* the test initiateNextFilter and initiateNextCapture make of the counters
inBatch(g, i, maxG, maxI) == g > 0 /\ i > 0 /\ g <= maxG /\ i <= maxI

\* Imager::initiateNextCapture: the state of ProgressNP it leaves
initiateNextCapture(progress, g, i, maxG, maxI, status) ==
    IF progress = "IPS_BUSY" /\ inBatch(g, i, maxG, maxI) /\ ~status.CCD
    THEN "IPS_ALERT" ELSE progress

\* Imager::initiateNextFilter: the state of ProgressNP it leaves
initiateNextFilter(progress, g, i, maxG, maxI, status, setting) ==
    IF progress # "IPS_BUSY" \/ ~inBatch(g, i, maxG, maxI) THEN progress
    ELSE IF ~status.FILTER
         THEN IF setting.filterSlot # 0 THEN "IPS_ALERT"
              ELSE initiateNextCapture(progress, g, i, maxG, maxI, status)
         ELSE IF setting.filterSlot # 0 /\ ~setting.atSlot THEN progress
              ELSE initiateNextCapture(progress, g, i, maxG, maxI, status)

Received(op, arg) == [op |-> op, arg |-> arg, crashed |-> FALSE]

\* an operation of the agent leaves the device and the other classes alone
besidesImager == <<device, angleVars, pmc8Vars, rotatorVars>>

\* Imager::ISNewSwitch with START on: startBatch unless a batch is running
StartBatch(setting) ==
    /\ ~received.crashed
    /\ received' = Received("START", 0)
    /\ IF ProgressNP # "IPS_BUSY"
       THEN /\ group' = 1
            /\ image' = 1
            /\ maxImage' = setting.count
            /\ ProgressNP' = initiateNextFilter("IPS_BUSY", 1, 1, maxGroup, setting.count,
                                                StatusLP, setting)
       ELSE UNCHANGED <<group, image, maxImage, ProgressNP>>
    /\ UNCHANGED <<maxGroup, StatusLP, besidesImager>>

\* Imager::ISNewSwitch with ABORT on: abortBatch when a batch is running
AbortBatch ==
    /\ ~received.crashed
    /\ received' = Received("ABORT", 0)
    /\ ProgressNP' = IF ProgressNP = "IPS_BUSY" THEN "IPS_ALERT" ELSE ProgressNP
    /\ UNCHANGED <<group, image, maxGroup, maxImage, StatusLP, besidesImager>>

\* Imager::ISNewNumber of GROUP_COUNT; a value outside the limits of the
\* number is turned down by the update and the count stays
GroupCount(value) ==
    /\ ~received.crashed
    /\ received' = Received("GROUP_COUNT", value)
    /\ maxGroup' = IF value >= 1 /\ value <= MAX_GROUP_COUNT THEN value ELSE maxGroup
    /\ UNCHANGED <<ProgressNP, group, image, maxImage, StatusLP, besidesImager>>

\* the counting both branches of updateProperty do when an image has been
\* saved; the empty pointer of nextGroup dereferenced stops the agent or
\* reads a count that is none
imageSaved(op, setting) ==
    /\ image < MaxCounter
    /\ IF image = maxImage
       THEN IF group = maxGroup
            THEN /\ ProgressNP' = "IPS_OK"
                 /\ received' = Received(op, 0)
                 /\ UNCHANGED <<group, image, maxImage>>
            ELSE IF nextGroup(group, maxGroup) = EmptyGroup
                 THEN \/ /\ received' = [Received(op, 0) EXCEPT !.crashed = TRUE]
                         /\ UNCHANGED <<ProgressNP, group, image, maxImage>>
                      \/ /\ group < MaxCounter
                         /\ received' = Received(op, 0)
                         /\ maxImage' \in 0..MaxImageCount
                         /\ group' = group + 1
                         /\ image' = 1
                         /\ ProgressNP' = initiateNextFilter(ProgressNP, group', 1, maxGroup,
                                                             maxImage', StatusLP, setting)
                 ELSE /\ received' = Received(op, 0)
                      /\ maxImage' = setting.count
                      /\ group' = group + 1
                      /\ image' = 1
                      /\ ProgressNP' = initiateNextFilter(ProgressNP, group + 1, 1, maxGroup,
                                                          setting.count, StatusLP, setting)
       ELSE /\ received' = Received(op, 0)
            /\ image' = image + 1
            /\ ProgressNP' = initiateNextFilter(ProgressNP, group, image + 1, maxGroup,
                                                maxImage, StatusLP, setting)
            /\ UNCHANGED <<group, maxImage>>
    /\ UNCHANGED <<maxGroup, StatusLP, besidesImager>>

\* Imager::updateProperty of a BLOB property with one element
UpdateBlob(setting) ==
    /\ ~received.crashed
    /\ IF ProgressNP = "IPS_BUSY"
       THEN imageSaved("BLOB", setting)
       ELSE /\ received' = Received("BLOB", 0)
            /\ UNCHANGED <<ProgressNP, group, image, maxGroup, maxImage, StatusLP,
                           besidesImager>>

\* Imager::updateProperty of CCD_FILE_PATH of the controlled CCD
UpdateFilePath(setting) ==
    /\ ~received.crashed
    /\ imageSaved("CCD_FILE_PATH", setting)

\* Imager::updateProperty of CONNECTION of a controlled device
UpdateConnection(which, state) ==
    /\ ~received.crashed
    /\ received' = Received("CONNECTION", which)
    /\ StatusLP' = [StatusLP EXCEPT ![which] = state]
    /\ UNCHANGED <<ProgressNP, group, image, maxGroup, maxImage, besidesImager>>

\* Imager::updateProperty of FILTER_SLOT of the controlled wheel, state Ok
UpdateFilterSlot ==
    /\ ~received.crashed
    /\ received' = Received("FILTER_SLOT", 0)
    /\ ProgressNP' = initiateNextCapture(ProgressNP, group, image, maxGroup, maxImage, StatusLP)
    /\ UNCHANGED <<group, image, maxGroup, maxImage, StatusLP, besidesImager>>

NextImager ==
    \/ \E setting \in GroupSettings : StartBatch(setting)
    \/ AbortBatch
    \/ \E value \in 0..(MAX_GROUP_COUNT + 1) : GroupCount(value)
    \/ \E setting \in GroupSettings : UpdateBlob(setting)
    \/ \E setting \in GroupSettings : UpdateFilePath(setting)
    \/ \E which \in {"CCD", "FILTER"}, state \in BOOLEAN : UpdateConnection(which, state)
    \/ UpdateFilterSlot

SpecImager == InitHelpers /\ [][NextImager]_vars

\* the updates of properties the agent receives from the devices it controls
PropertyUpdates == {"BLOB", "CCD_FILE_PATH", "CONNECTION", "FILTER_SLOT"}

\* C37: while no batch is running no update of a property changes the
\* group or the image counter or moves the progress to Ok, and a batch in
\* Alert stays in Alert with the counters as they are until START.
C37_IdleBatchIgnoresUpdates ==
    [][/\ (ProgressNP # "IPS_BUSY" /\ received'.op \in PropertyUpdates)
            => /\ group' = group
               /\ image' = image
               /\ (ProgressNP' = "IPS_OK" => ProgressNP = "IPS_OK")
       /\ (ProgressNP = "IPS_ALERT" /\ received'.op # "START")
            => /\ ProgressNP' = "IPS_ALERT"
               /\ group' = group
               /\ image' = image]_vars

\* C38: while a batch is running 1 <= group <= maxGroup and
\* 1 <= image <= maxImage, and no empty group pointer is dereferenced.
C38_RunningBatchCountersInRange ==
    ProgressNP = "IPS_BUSY"
        => /\ 1 <= group /\ group <= maxGroup
           /\ 1 <= image /\ image <= maxImage
           /\ ~received.crashed

(***************************************************************************)
(* The WandererRotatorLite driver: polling.  SetTimer is DefaultDevice's:  *)
(* it either restarts the one timer of the device or adds a timer at each  *)
(* call; a timer that fires calls TimerHit once.                           *)
(***************************************************************************)
MaxPollTimers == 3

\* the length of a move, in the polls it is counted down for
MoveLengths == 0..2

\* the timers pending after DefaultDevice::SetTimer
SetTimer(pending) == IF mainLoopTimer THEN 1 ELSE pending + 1

\* RotatorInterface: the state of GotoRotatorNP after AbortRotator returned
abortedState(state, aborted) == IF aborted /\ state # "IPS_OK" THEN "IPS_OK" ELSE state

\* an operation of the rotator leaves the device and the other classes alone
besidesRotator == <<device, angleVars, pmc8Vars, imagerVars, mainLoopTimer>>

\* a call of the driver: what it was called with or met
Hit(op, arg) == [op |-> op, arg |-> arg]

\* DefaultDevice: the client connects or disconnects the device
SetConnected(state) ==
    /\ isConnected' = state
    /\ hit' = Hit("setConnected", IF state THEN "on" ELSE "off")
    /\ UNCHANGED <<haltcommand, positioncount, GotoRotatorNP, HomeRotatorSP, pollTimers,
                   besidesRotator>>

\* WandererRotatorLite::Move: the timers pending when it returns
Move(written) == IF written THEN SetTimer(pollTimers) ELSE pollTimers

\* WandererRotatorLite::MoveRotator, its state stored in GotoRotatorNP
MoveRotator(length, written) ==
    /\ Move(written) <= MaxPollTimers
    /\ positioncount' = length
    /\ pollTimers' = Move(written)
    /\ GotoRotatorNP' = "IPS_BUSY"
    /\ hit' = Hit("MoveRotator", IF written THEN "written" ELSE "write error")
    /\ UNCHANGED <<isConnected, haltcommand, HomeRotatorSP, besidesRotator>>

\* WandererRotatorLite::HomeRotator, its state stored in HomeRotatorSP
HomeRotator(length, written) ==
    /\ Move(written) <= MaxPollTimers
    /\ positioncount' = length
    /\ pollTimers' = Move(written)
    /\ HomeRotatorSP' = "IPS_BUSY"
    /\ hit' = Hit("HomeRotator", IF written THEN "written" ELSE "write error")
    /\ UNCHANGED <<isConnected, haltcommand, GotoRotatorNP, besidesRotator>>

\* what the serial line does to a command and its answers
SerialOutcomes == {"ok", "write error", "read error"}

\* WandererRotatorLite::AbortRotator
AbortRotator(serial) ==
    /\ SetTimer(pollTimers) <= MaxPollTimers
    /\ haltcommand' = (serial # "ok")
    /\ positioncount' = 0
    /\ pollTimers' = SetTimer(pollTimers)
    /\ GotoRotatorNP' = abortedState(GotoRotatorNP, serial = "ok")
    /\ hit' = Hit("AbortRotator", serial)
    /\ UNCHANGED <<isConnected, HomeRotatorSP, besidesRotator>>

\* WandererRotatorLite::TimerHit, called when a timer fires
TimerHit(serial) ==
    /\ pollTimers > 0
    /\ LET fired == IF mainLoopTimer THEN 0 ELSE pollTimers - 1
       IN  IF ~isConnected
           THEN /\ pollTimers' = SetTimer(fired)
                /\ hit' = Hit("TimerHit", "not connected")
                /\ UNCHANGED <<haltcommand, positioncount, GotoRotatorNP, HomeRotatorSP>>
           ELSE IF haltcommand
           THEN /\ GotoRotatorNP' = "IPS_OK"
                /\ HomeRotatorSP' = "IPS_OK"
                /\ haltcommand' = FALSE
                /\ positioncount' = 0
                /\ pollTimers' = fired
                /\ hit' = Hit("TimerHit", "haltcommand")
           ELSE IF positioncount > 0
           THEN /\ positioncount' = positioncount - 1
                /\ pollTimers' = SetTimer(fired)
                /\ hit' = Hit("TimerHit", "moving")
                /\ UNCHANGED <<haltcommand, GotoRotatorNP, HomeRotatorSP>>
           ELSE IF GotoRotatorNP = "IPS_BUSY" \/ HomeRotatorSP = "IPS_BUSY"
           THEN IF serial = "read error"
                THEN /\ pollTimers' = fired
                     /\ hit' = Hit("TimerHit", "read error")
                     /\ UNCHANGED <<haltcommand, positioncount, GotoRotatorNP, HomeRotatorSP>>
                ELSE /\ GotoRotatorNP' = "IPS_OK"
                     /\ HomeRotatorSP' = "IPS_OK"
                     /\ pollTimers' = SetTimer(fired)
                     /\ hit' = Hit("TimerHit", "done")
                     /\ UNCHANGED <<haltcommand, positioncount>>
           ELSE /\ pollTimers' = SetTimer(fired)
                /\ hit' = Hit("TimerHit", "idle")
                /\ UNCHANGED <<haltcommand, positioncount, GotoRotatorNP, HomeRotatorSP>>
    /\ UNCHANGED <<isConnected, besidesRotator>>

NextRotator ==
    \/ \E state \in BOOLEAN : SetConnected(state)
    \/ \E length \in MoveLengths, written \in BOOLEAN : MoveRotator(length, written)
    \/ \E length \in MoveLengths, written \in BOOLEAN : HomeRotator(length, written)
    \/ \E serial \in SerialOutcomes : AbortRotator(serial)
    \/ \E serial \in {"ok", "read error"} : TimerHit(serial)

\* the driver as constructed, with either kind of SetTimer
RotatorInit ==
    /\ isConnected = FALSE
    /\ haltcommand = FALSE
    /\ positioncount = 0
    /\ GotoRotatorNP = "IPS_IDLE"
    /\ HomeRotatorSP = "IPS_IDLE"
    /\ mainLoopTimer \in BOOLEAN
    /\ pollTimers = 0
    /\ hit = Hit("WandererRotatorLite", "")

InitRotator == DeviceIdle /\ AngleIdle /\ PMC8Idle /\ ImagerIdle /\ RotatorInit

SpecRotator == InitRotator /\ [][NextRotator]_vars

\* C39: when TimerHit has returned a poll timer is pending, whichever path
\* it took.
C39_TimerHitLeavesTimerPending == hit.op = "TimerHit" => pollTimers > 0

====
